---------------------------- MODULE Spec2Model ----------------------------
(***************************************************************************)
(* The response decoders of train_api/utils.py as a state machine.  An     *)
(* upstream payload is built chunk by chunk, handed to the decoder of the  *)
(* endpoint that fetched it, and the returned envelope is recorded.        *)
(* Strings are sequences of one-character strings, so that split, replace, *)
(* len and indexing are computed as Python computes them.                  *)
(***************************************************************************)
EXTENDS Integers, Sequences, FiniteSets, TLC

\* The longest payload, in chunks of the corpus.
MaxChunks == 3

\* The wall clock read by _current_timestamp_ms ranges over 0..MaxTime.
MaxTime == 1

\* The most elements of a station page.
MaxNodes == 3

\* The number of concurrent request-handling tasks.
MaxTasks == 2

(***************************************************************************)
(* Python string and list primitives.                                      *)
(***************************************************************************)

\* s[i:i+len(sub)] == sub, i 1-based, for a non-empty sub
MatchAt(s, sub, i) ==
    /\ i + Len(sub) - 1 <= Len(s)
    /\ s[i] = sub[1]
    /\ \A j \in 2..Len(sub) : s[i + j - 1] = sub[j]

\* str.find: the least position >= i at which sub occurs in s, 0 if none
Find(s, sub, i) ==
    LET last == Len(s) - Len(sub) + 1
    IN  IF \E k \in i..last : MatchAt(s, sub, k)
        THEN CHOOSE k \in i..last :
                 MatchAt(s, sub, k) /\ \A j \in i..(k - 1) : ~MatchAt(s, sub, j)
        ELSE 0

\* sub in s
Contains(s, sub) == Find(s, sub, 1) # 0

RECURSIVE Split(_, _)
\* str.split(sep): leftmost non-overlapping occurrences, empty pieces kept
Split(s, sep) ==
    LET k == Find(s, sep, 1)
    IN  IF k = 0 THEN <<s>>
        ELSE <<SubSeq(s, 1, k - 1)>> \o Split(SubSeq(s, k + Len(sep), Len(s)), sep)

\* [el for el in xs if el]
NonEmpty(xs) == SelectSeq(xs, LAMBDA el : el # <<>>)

\* s.replace(ch, "") for a one-character ch
Remove(s, ch) == SelectSeq(s, LAMBDA c : c # ch)

\* The values a decoder puts under "data", tagged with their Python type.
StrVal(s) == [type |-> "str", v |-> s]
ListVal(xs) == [type |-> "list", v |-> xs]
DictVal(o) == [type |-> "dict", v |-> o]

\* The dictionary every decoder returns.
Envelope(success, t, data) == [success |-> success, time_stamp |-> t, data |-> data]

TILDE == <<"~">>
CARET == <<"^">>
LT == <<"<">>

\* utils.py:24,57,64,321,332  the record separator "~~~~~~~~"
SEP ==
    <<"~","~","~","~","~","~","~","~">>

\* utils.py:74,181  the marker "~^"
MARK ==
    <<"~","^">>

\* utils.py:23,31  "No direct trains found"
NoDirectMsg ==
    <<"N","o"," ","d","i","r","e","c","t"," ","t","r","a","i","n","s"," ","f","o","u","n","d">>

\* utils.py:51,323
ErrTryAgain ==
    <<"~","~","~","~","~","P","l","e","a","s","e"," ","t","r","y"," ","a","g","a","i","n"," ",
      "a","f","t","e","r"," ","s","o","m","e"," ","t","i","m","e",".">>

\* utils.py:52
ErrFromStation ==
    <<"~","~","~","~","~","F","r","o","m"," ","s","t","a","t","i","o","n"," ","n","o","t"," ",
      "f","o","u","n","d">>

\* utils.py:53
ErrToStation ==
    <<"~","~","~","~","~","T","o"," ","s","t","a","t","i","o","n"," ","n","o","t"," ","f","o",
      "u","n","d">>

\* utils.py:324
ErrTrainNotFound ==
    <<"~","~","~","~","~","T","r","a","i","n"," ","n","o","t"," ","f","o","u","n","d">>

\* utils.py:70
MsgUnknownEmpty ==
    <<"U","n","k","n","o","w","n"," ","e","r","r","o","r"," ","o","r"," ","e","m","p","t","y",
      " ","r","e","s","p","o","n","s","e"," ","f","r","o","m"," ","A","P","I",".">>

\* utils.py:117
MsgNoneParsed ==
    <<"N","o"," ","t","r","a","i","n"," ","d","a","t","a"," ","c","o","u","l","d"," ","b","e",
      " ","p","a","r","s","e","d",".">>

\* utils.py:122
MsgNoDirectOrFormat ==
    <<"N","o"," ","d","i","r","e","c","t"," ","t","r","a","i","n","s"," ","f","o","u","n","d",
      " ","o","r"," ","d","a","t","a"," ","f","o","r","m","a","t"," ","i","s","s","u","e",".">>

\* utils.py:137 (prefix of the f-string)
MsgBetweenError ==
    <<"A","n"," ","e","r","r","o","r"," ","o","c","c","u","r","r","e","d"," ","d","u","r","i",
      "n","g"," ","d","a","t","a"," ","p","r","o","c","e","s","s","i","n","g",":"," ">>

\* str(IndexError) of a list subscript
MsgIndexError ==
    <<"l","i","s","t"," ","i","n","d","e","x"," ","o","u","t"," ","o","f"," ","r","a","n","g",
      "e">>

\* utils.py:188
MsgNoRoute ==
    <<"N","o"," ","r","o","u","t","e"," ","d","a","t","a"," ","f","o","u","n","d"," ","i","n",
      " ","r","e","s","p","o","n","s","e",".">>

\* utils.py:210
MsgRouteUnparsed ==
    <<"C","o","u","l","d"," ","n","o","t"," ","p","a","r","s","e"," ","r","o","u","t","e"," ",
      "d","e","t","a","i","l","s"," ","f","r","o","m"," ","s","e","g","m","e","n","t","s",".">>

\* utils.py:222,426 (prefix of the f-string)
MsgAnError ==
    <<"A","n"," ","e","r","r","o","r"," ","o","c","c","u","r","r","e","d",":"," ">>

\* utils.py:338
MsgInvalidFormat ==
    <<"I","n","v","a","l","i","d"," ","d","a","t","a"," ","f","o","r","m","a","t"," ","f","o",
      "r"," ","t","r","a","i","n"," ","d","e","t","a","i","l","s",".">>

\* utils.py:367
MsgFirstPart ==
    <<"N","o","t"," ","e","n","o","u","g","h"," ","d","a","t","a"," ","i","n"," ","t","h","e",
      " ","f","i","r","s","t"," ","p","a","r","t"," ","o","f"," ","t","r","a","i","n"," ","d",
      "e","t","a","i","l","s",".">>

\* utils.py:401
MsgSecondPart ==
    <<"N","o","t"," ","e","n","o","u","g","h"," ","d","a","t","a"," ","i","n"," ","t","h","e",
      " ","s","e","c","o","n","d"," ","p","a","r","t"," ","o","f"," ","t","r","a","i","n"," ",
      "d","e","t","a","i","l","s",".">>

\* utils.py:297
MsgPnrNotFound ==
    <<"C","o","u","l","d"," ","n","o","t"," ","f","i","n","d"," ","P","N","R"," ","d","a","t",
      "a"," ","i","n"," ","t","h","e"," ","p","a","g","e",".">>

\* utils.py:305
MsgPnrParse ==
    <<"F","a","i","l","e","d"," ","t","o"," ","p","a","r","s","e"," ","P","N","R"," ","d","a",
      "t","a"," ","f","r","o","m"," ","p","a","g","e",".">>

\* views.py:79
MsgParamsRequired ==
    <<"P","a","r","a","m","e","t","e","r","s"," ","'","f","r","o","m","'",","," ","'","t","o",
      "'",","," ","a","n","d"," ","'","d","a","t","e","'"," ","a","r","e"," ","r","e","q","u",
      "i","r","e","d",".">>

\* views.py:88
MsgInvalidDateFormat ==
    <<"I","n","v","a","l","i","d"," ","d","a","t","e"," ","f","o","r","m","a","t","."," ","P",
      "l","e","a","s","e"," ","u","s","e"," ","D","D","-","M","M","-","Y","Y","Y","Y",".">>

\* views.py:113
MsgInvalidDate ==
    <<"I","n","v","a","l","i","d"," ","d","a","t","e"," ","p","r","o","v","i","d","e","d"," ",
      "f","o","r"," ","p","r","o","c","e","s","s","i","n","g",".">>

\* views.py:136,178
MsgUnexpected ==
    <<"A","n"," ","u","n","e","x","p","e","c","t","e","d"," ","e","r","r","o","r"," ","o","c",
      "c","u","r","r","e","d",".">>

\* views.py:142
MsgTrainNoRequired ==
    <<"t","r","a","i","n","N","o"," ","p","a","r","a","m","e","t","e","r"," ","i","s"," ","r",
      "e","q","u","i","r","e","d">>

\* views.py:159
MsgNoTrainId ==
    <<"C","o","u","l","d"," ","n","o","t"," ","e","x","t","r","a","c","t"," ","t","r","a","i",
      "n","_","i","d"," ","f","r","o","m"," ","i","n","i","t","i","a","l"," ","t","r","a","i",
      "n"," ","d","a","t","a",".">>

\* views.py:131,173 (prefix of the f-string)
MsgHttpError ==
    <<"H","T","T","P"," ","e","r","r","o","r",":"," ">>

\* views.py:133,175 (prefix of the f-string)
MsgRequestFailed ==
    <<"R","e","q","u","e","s","t"," ","f","a","i","l","e","d",":"," ">>

\* utils.py:419 (prefix of the f-string)
MsgTrainIndexError ==
    <<"D","a","t","a"," ","p","a","r","s","i","n","g"," ","e","r","r","o","r"," ","(","i","n",
      "d","e","x"," ","o","u","t"," ","o","f"," ","b","o","u","n","d","s",")",":"," ">>

(***************************************************************************)
(* between_station_logic                                                   *)
(***************************************************************************)

\* utils.py:50-54
potential_error_messages == {ErrTryAgain, ErrFromStation, ErrToStation}

\* utils.py:102  [1 if day_char == 'Y' else 0 for day_char in raw_running_days]
parsed_running_days(raw_running_days) ==
    [i \in 1..Len(raw_running_days) |-> IF raw_running_days[i] = "Y" THEN 1 ELSE 0]

\* The parse kept whatever its length.
running_days_any_length(raw_running_days) ==
    parsed_running_days(raw_running_days)

\* utils.py:103-108  the list is kept only when it has 7 entries
running_days(raw_running_days) ==
    IF Len(parsed_running_days(raw_running_days)) = 7
    THEN parsed_running_days(raw_running_days)
    ELSE <<>>

\* One field fewer asked for.
enough_train_details_13(train_details) == Len(train_details) >= 13

\* utils.py:79  len(train_details) >= 14
enough_train_details(train_details) == Len(train_details) >= 14

\* utils.py:75  len(parts) == 2
two_parts(parts) == Len(parts) = 2

\* utils.py:80-108  obj; the subscripts 0..13 are Python's
train_base_obj(train_details) ==
    [train_no |-> train_details[1],
     train_name |-> train_details[2],
     source_stn_name |-> train_details[3],
     source_stn_code |-> train_details[4],
     dstn_stn_name |-> train_details[5],
     dstn_stn_code |-> train_details[6],
     from_stn_name |-> train_details[7],
     from_stn_code |-> train_details[8],
     to_stn_name |-> train_details[9],
     to_stn_code |-> train_details[10],
     from_time |-> train_details[11],
     to_time |-> train_details[12],
     travel_time |-> train_details[13],
     running_days_str |-> train_details[14],
     running_days |-> running_days(train_details[14])]

\* utils.py:112  arr.append(train_base_obj)
append_train(arr, train_base) == Append(arr, [train_base |-> train_base])

RECURSIVE collect_trains(_, _)
\* utils.py:73-112  the loop over data_segments; exc is the exception a
\* subscript raised, "" when none did
collect_trains(data_segments, arr) ==
    IF data_segments = <<>> THEN [exc |-> "", arr |-> arr]
    ELSE LET parts == Split(Head(data_segments), MARK)
             train_details == NonEmpty(Split(parts[2], TILDE))
         IN  IF two_parts(parts) /\ enough_train_details(train_details)
             THEN IF Len(train_details) < 14
                  THEN [exc |-> "IndexError", arr |-> arr]
                  ELSE collect_trains(Tail(data_segments),
                                      append_train(arr, train_base_obj(train_details)))
             ELSE collect_trains(Tail(data_segments), arr)

\* Element 5 only has to contain the phrase.
no_direct_check_contains(api_response_text) ==
    /\ Contains(api_response_text, NoDirectMsg)
    /\ LET nore_check_parts == Split(Split(api_response_text, SEP)[1], TILDE)
       IN  /\ Len(nore_check_parts) > 5
           /\ Contains(Split(nore_check_parts[6], LT)[1], NoDirectMsg)

\* utils.py:23-37  the "No direct trains found" check
no_direct_check(api_response_text) ==
    /\ Contains(api_response_text, NoDirectMsg)
    /\ LET nore_check_parts == Split(Split(api_response_text, SEP)[1], TILDE)
       IN  /\ Len(nore_check_parts) > 5
           /\ Split(nore_check_parts[6], LT)[1] = NoDirectMsg

\* The whole text, not its first segment, compared with the error messages.
between_error_check_whole(api_response_text) ==
    api_response_text \in potential_error_messages

\* utils.py:57-58  the first segment is one of the upstream error messages
between_error_check(api_response_text) ==
    Split(api_response_text, SEP)[1] \in potential_error_messages

\* utils.py:114,119  retval is still {} there, so retval.get("success", True) is True
retval_get_success == TRUE

\* An empty list of trains taken for a success.
empty_arr_success(t) == Envelope(TRUE, t, ListVal(<<>>))

\* utils.py:114-123  the result when arr is empty
empty_arr_result(t) ==
    IF ~retval_get_success
    THEN Envelope(FALSE, t, StrVal(MsgNoneParsed))
    ELSE Envelope(FALSE, t, StrVal(MsgNoDirectOrFormat))

\* utils.py:131-138  the except Exception handler
between_handler(t) ==
    [escaped |-> FALSE,
     ret |-> Envelope(FALSE, t, StrVal(MsgBetweenError \o MsgIndexError))]

\* utils.py:12-138  returns [escaped, ret]: ret is the envelope returned,
\* escaped says an exception left the function instead
between_station_logic(api_response_text, t) ==
    IF no_direct_check(api_response_text)
    THEN [escaped |-> FALSE, ret |-> Envelope(FALSE, t, StrVal(NoDirectMsg))]
    ELSE IF between_error_check(api_response_text)
    THEN [escaped |-> FALSE,
          ret |-> Envelope(FALSE, t,
                           StrVal(Remove(Split(api_response_text, SEP)[1], "~")))]
    ELSE LET data_segments == NonEmpty(Split(api_response_text, SEP))
             got == collect_trains(data_segments, <<>>)
         IN  IF data_segments = <<>>
             THEN [escaped |-> FALSE, ret |-> Envelope(FALSE, t, StrVal(MsgUnknownEmpty))]
             ELSE IF got.exc # "" THEN between_handler(t)
             ELSE IF got.arr = <<>> THEN [escaped |-> FALSE, ret |-> empty_arr_result(t)]
             ELSE [escaped |-> FALSE, ret |-> Envelope(TRUE, t, ListVal(got.arr))]

(***************************************************************************)
(* get_route_logic                                                         *)
(***************************************************************************)

\* utils.py:194  len(details) > 9
enough_route_details(details) == Len(details) > 9

\* utils.py:195-203  obj; the subscripts 1..9 are Python's
route_stop_obj(details) ==
    [source_stn_name |-> details[3],
     source_stn_code |-> details[2],
     arrive |-> details[4],
     depart |-> details[5],
     distance |-> details[7],
     day |-> details[8],
     zone |-> details[10]]

\* The stop put in front.
prepend_stop(arr, obj) == <<obj>> \o arr

\* utils.py:204  arr.append(obj)
append_stop(arr, obj) == Append(arr, obj)

RECURSIVE collect_stops(_, _)
\* utils.py:191-204  the loop over data_segments
collect_stops(data_segments, arr) ==
    IF data_segments = <<>> THEN [exc |-> "", arr |-> arr]
    ELSE LET details == NonEmpty(Split(Head(data_segments), TILDE))
         IN  IF enough_route_details(details)
             THEN IF Len(details) < 10
                  THEN [exc |-> "IndexError", arr |-> arr]
                  ELSE collect_stops(Tail(data_segments),
                                     append_stop(arr, route_stop_obj(details)))
             ELSE collect_stops(Tail(data_segments), arr)

\* utils.py:217-223  the except Exception handler
route_handler(t) ==
    [escaped |-> FALSE, ret |-> Envelope(FALSE, t, StrVal(MsgAnError \o MsgIndexError))]

\* utils.py:176-223
get_route_logic(api_response_text, t) ==
    LET data_segments == NonEmpty(Split(api_response_text, MARK))
        got == collect_stops(data_segments, <<>>)
    IN  IF data_segments = <<>>
        THEN [escaped |-> FALSE, ret |-> Envelope(FALSE, t, StrVal(MsgNoRoute))]
        ELSE IF got.exc # "" THEN route_handler(t)
        ELSE IF got.arr = <<>>
        THEN [escaped |-> FALSE, ret |-> Envelope(FALSE, t, StrVal(MsgRouteUnparsed))]
        ELSE [escaped |-> FALSE, ret |-> Envelope(TRUE, t, ListVal(got.arr))]

(***************************************************************************)
(* check_train_logic                                                       *)
(***************************************************************************)

Digits == {"0", "1", "2", "3", "4", "5", "6", "7", "8", "9"}

\* str.isdigit
isdigit(s) == s # <<>> /\ \A i \in 1..Len(s) : s[i] \in Digits

\* utils.py:322-325
error_messages == {ErrTryAgain, ErrTrainNotFound}

\* utils.py:326  the first segment is one of the upstream error messages
train_error_check(api_response_text) ==
    Split(api_response_text, SEP)[1] \in error_messages

\* The leading element is popped whenever the second one is longer than 6.
pops_first_always(details_part1) ==
    Len(details_part1) > 1 /\ Len(details_part1[2]) > 6

\* utils.py:348-358  the leading element is popped
pops_first(details_part1) ==
    /\ details_part1 # <<>>
    /\ Len(details_part1) > 1
    /\ Len(details_part1[2]) > 6
    /\ \/ details_part1[1] = CARET
       \/ /\ Len(details_part1[1]) > 6
          /\ Len(details_part1) > 1
          /\ ~isdigit(details_part1[1])

\* utils.py:343-358  details_part1 after the conditional pop(0)
repaired_part1(details_part1_str) ==
    LET details_part1 == NonEmpty(Split(details_part1_str, TILDE))
    IN  IF pops_first(details_part1) THEN Tail(details_part1) ELSE details_part1

\* One field fewer asked for.
short_part1_14(details_part1) == Len(details_part1) < 14

\* utils.py:363  len(details_part1) < 15
short_part1(details_part1) == Len(details_part1) < 15

\* utils.py:397  len(details_part2) < 20
short_part2(details_part2) == Len(details_part2) < 20

\* Only a "^" at the start removed.
train_no_lstrip(field) ==
    IF field # <<>> /\ field[1] = "^" THEN Tail(field) ELSE field

\* utils.py:371  details_part1[0].replace("^", "")
train_no_of(field) == Remove(field, "^")

\* utils.py:370-389, 404-407  obj; the subscripts are Python's
train_detail_obj(details_part1, details_part2) ==
    [train_no |-> train_no_of(details_part1[1]),
     train_name |-> details_part1[2],
     from_stn_name |-> details_part1[3],
     from_stn_code |-> details_part1[4],
     to_stn_name |-> details_part1[5],
     to_stn_code |-> details_part1[6],
     from_time |-> details_part1[11],
     to_time |-> details_part1[12],
     travel_time |-> details_part1[13],
     running_days_str |-> details_part1[14],
     running_days |-> running_days(details_part1[14]),
     type |-> details_part2[12],
     train_id |-> details_part2[13],
     distance_from_to |-> details_part2[19],
     average_speed |-> details_part2[20]]

\* utils.py:414-420  the except IndexError handler
train_handler(t) ==
    [escaped |-> FALSE,
     ret |-> Envelope(FALSE, t, StrVal(MsgTrainIndexError \o MsgIndexError))]

\* utils.py:332-339  fewer than two segments
too_few_segments(data_segments) == Len(data_segments) < 2

\* utils.py:315-427
check_train_logic(api_response_text, t) ==
    LET data_segments == Split(api_response_text, SEP)
        details_part1 == repaired_part1(data_segments[1])
        details_part2 == NonEmpty(Split(data_segments[2], TILDE))
    IN  IF train_error_check(api_response_text)
        THEN [escaped |-> FALSE,
              ret |-> Envelope(FALSE, t, StrVal(Remove(data_segments[1], "~")))]
        ELSE IF too_few_segments(data_segments)
        THEN [escaped |-> FALSE, ret |-> Envelope(FALSE, t, StrVal(MsgInvalidFormat))]
        ELSE IF short_part1(details_part1)
        THEN [escaped |-> FALSE, ret |-> Envelope(FALSE, t, StrVal(MsgFirstPart))]
        ELSE IF Len(details_part1) < 14 THEN train_handler(t)
        ELSE IF short_part2(details_part2)
        THEN [escaped |-> FALSE, ret |-> Envelope(FALSE, t, StrVal(MsgSecondPart))]
        ELSE IF Len(details_part2) < 20 THEN train_handler(t)
        ELSE [escaped |-> FALSE,
              ret |-> Envelope(TRUE, t, DictVal(train_detail_obj(details_part1, details_part2)))]

(***************************************************************************)
(* get_day_on_date_logic                                                   *)
(***************************************************************************)

DigitValue(c) ==
    CASE c = "0" -> 0 [] c = "1" -> 1 [] c = "2" -> 2 [] c = "3" -> 3 [] c = "4" -> 4
      [] c = "5" -> 5 [] c = "6" -> 6 [] c = "7" -> 7 [] c = "8" -> 8 [] c = "9" -> 9

RECURSIVE StripZeros(_)
\* The digits without their leading zeros.
StripZeros(ds) ==
    IF ds # <<>> /\ ds[1] = "0" THEN StripZeros(Tail(ds)) ELSE ds

RECURSIVE DigitsGreater(_, _)
\* For digit strings of one length: a > b as numbers.
DigitsGreater(a, b) ==
    IF a = <<>> THEN FALSE
    ELSE IF a[1] # b[1] THEN DigitValue(a[1]) > DigitValue(b[1])
    ELSE DigitsGreater(Tail(a), Tail(b))

\* INT_MAX and -INT_MIN of the C int that datetime() converts its arguments to
CIntMax == <<"2", "1", "4", "7", "4", "8", "3", "6", "4", "7">>
CIntMinMagnitude == <<"2", "1", "4", "7", "4", "8", "3", "6", "4", "8">>

\* The number ds (without leading zeros) does not fit: its magnitude exceeds limit.
ExceedsCInt(ds, limit) ==
    \/ Len(ds) > Len(limit)
    \/ Len(ds) = Len(limit) /\ DigitsGreater(ds, limit)

RECURSIVE Accumulate(_, _, _)
\* The value of the digits, accumulated with the sign so that INT_MIN is reached
\* without passing INT_MAX.
Accumulate(ds, acc, sign) ==
    IF ds = <<>> THEN acc
    ELSE Accumulate(Tail(ds), acc * 10 + sign * DigitValue(ds[1]), sign)

\* int(s) for a decimal literal with an optional sign: err is ValueError; big
\* says the value is outside the C int range, and val is the value otherwise
int(s) ==
    LET signed == s # <<>> /\ s[1] \in {"-", "+"}
        negative == s # <<>> /\ s[1] = "-"
        body == IF signed THEN Tail(s) ELSE s
        ds == StripZeros(body)
        big == ExceedsCInt(ds, IF negative THEN CIntMinMagnitude ELSE CIntMax)
    IN  IF ~isdigit(body) THEN [err |-> TRUE, big |-> FALSE, val |-> 0]
        ELSE IF big THEN [err |-> FALSE, big |-> TRUE, val |-> 0]
        ELSE [err |-> FALSE, big |-> FALSE,
              val |-> Accumulate(ds, 0, IF negative THEN -1 ELSE 1)]

\* datetime: a year divisible by 4, and by 400 if by 100
is_leap(y) == y % 4 = 0 /\ (y % 100 # 0 \/ y % 400 = 0)

\* datetime: the days of month m of year y
days_in_month(y, m) ==
    IF m = 2 THEN (IF is_leap(y) THEN 29 ELSE 28)
    ELSE IF m \in {4, 6, 9, 11} THEN 30 ELSE 31

\* datetime(yyyy, mm, dd) raises ValueError
datetime_value_error(yyyy, mm, dd) ==
    \/ yyyy < 1 \/ yyyy > 9999
    \/ mm < 1 \/ mm > 12
    \/ dd < 1 \/ dd > days_in_month(yyyy, mm)

RECURSIVE days_before_month(_, _)
\* datetime: the days of year y before the first of month m
days_before_month(y, m) ==
    IF m = 1 THEN 0 ELSE days_before_month(y, m - 1) + days_in_month(y, m - 1)

\* datetime: the days before the first of January of year y
days_before_year(y) ==
    (y - 1) * 365 + ((y - 1) \div 4) - ((y - 1) \div 100) + ((y - 1) \div 400)

\* date_obj.weekday(): Monday is 0
weekday(yyyy, mm, dd) ==
    (days_before_year(yyyy) + days_before_month(yyyy, mm) + dd + 6) % 7

\* utils.py:170  (py_weekday + 5) % 7
mapped_day_index(py_weekday) == (py_weekday + 5) % 7

\* utils.py:172-174  what the function does with the exception exc:
\* ValueError is caught and -1 returned, anything else leaves the function
day_handler(exc) ==
    IF exc = "ValueError" THEN [escaped |-> FALSE, ret |-> -1]
    ELSE [escaped |-> TRUE, ret |-> -1]

\* utils.py:141-174  returns [escaped, ret]: ret is the index returned,
\* escaped says an exception left the function instead
get_day_on_date_logic(dd_str, mm_str, yyyy_str) ==
    LET dd == int(dd_str)
        mm == int(mm_str)
        yyyy == int(yyyy_str)
    IN  IF dd.err \/ mm.err \/ yyyy.err THEN day_handler("ValueError")
        ELSE IF dd.big \/ mm.big \/ yyyy.big THEN day_handler("OverflowError")
        ELSE IF datetime_value_error(yyyy.val, mm.val, dd.val) THEN day_handler("ValueError")
        ELSE [escaped |-> FALSE,
              ret |-> mapped_day_index(weekday(yyyy.val, mm.val, dd.val))]

(***************************************************************************)
(* pnr_status_logic                                                        *)
(***************************************************************************)

QUOTE == <<"\"">>

\* re: \s, and the whitespace json skips
IsSpace(c) == c \in {" ", "\t", "\n", "\r"}

RECURSIVE SkipSpaces(_, _)
\* The first position >= i of s that holds no whitespace.
SkipSpaces(s, i) ==
    IF i <= Len(s) /\ IsSpace(s[i]) THEN SkipSpaces(s, i + 1) ELSE i

\* s[i] exists and is c
CharAt(s, i, c) == i <= Len(s) /\ s[i] = c

\* The pattern with a greedy body, data\s*=\s*({.*});: group 1 ends at the last
\* "}" that a ";" follows.
MatchDataAtGreedy(s, i) ==
    LET eq == SkipSpaces(s, i + 4)
        open == SkipSpaces(s, eq + 1)
        closes == {c \in (open + 1)..(Len(s) - 1) : s[c] = "}" /\ s[c + 1] = ";"}
    IN  IF /\ MatchAt(s, <<"d", "a", "t", "a">>, i)
           /\ CharAt(s, eq, "=")
           /\ CharAt(s, open, "{")
           /\ closes # {}
        THEN <<open, CHOOSE c \in closes : \A d \in closes : d <= c>>
        ELSE <<0, 0>>

\* utils.py:285  data\s*=\s*({.*?}); matched with its "data" at i: the positions
\* of the "{" and the "}" of group 1, <<0, 0>> when there is no match at i.
\* The lazy .*? ends at the first "}" that a ";" follows.
MatchDataAt(s, i) ==
    LET eq == SkipSpaces(s, i + 4)
        open == SkipSpaces(s, eq + 1)
        close == Find(s, <<"}", ";">>, open + 1)
    IN  IF /\ MatchAt(s, <<"d", "a", "t", "a">>, i)
           /\ CharAt(s, eq, "=")
           /\ CharAt(s, open, "{")
           /\ close # 0
        THEN <<open, close>>
        ELSE <<0, 0>>

\* utils.py:285  re.search(..., re.DOTALL): the match at the leftmost position
re_search(html_string) ==
    LET starts == {i \in 1..Len(html_string) : MatchDataAt(html_string, i) # <<0, 0>>}
    IN  IF starts = {} THEN <<0, 0>>
        ELSE MatchDataAt(html_string, CHOOSE i \in starts : \A j \in starts : i <= j)

\* The values json.loads builds, tagged with their Python type.
IntVal(n) == [type |-> "int", v |-> n]
BoolVal(b) == [type |-> "bool", v |-> b]
NoneVal == [type |-> "NoneType", v |-> 0]

\* What a json scanner returns: the value and the position after it, or a failure.
Parsed(val, pos) == [ok |-> TRUE, val |-> val, pos |-> pos]
NotParsed == [ok |-> FALSE, val |-> NoneVal, pos |-> 0]

\* json: a string from its opening quote at i to the next quote; control
\* characters are refused (strict). The payloads hold no backslash.
ParseString(s, i) ==
    LET close == Find(s, QUOTE, i + 1)
    IN  IF close = 0 THEN NotParsed
        ELSE IF \E k \in (i + 1)..(close - 1) : s[k] \in {"\t", "\n", "\r"} THEN NotParsed
        ELSE Parsed(StrVal(SubSeq(s, i + 1, close - 1)), close + 1)

RECURSIVE DigitsEnd(_, _)
\* The first position >= i of s that holds no digit.
DigitsEnd(s, i) ==
    IF i <= Len(s) /\ s[i] \in Digits THEN DigitsEnd(s, i + 1) ELSE i

\* json: an integer at i, -?(0|[1-9]\d*). The payloads hold no fraction or exponent.
ParseNumber(s, i) ==
    LET negative == CharAt(s, i, "-")
        first == IF negative THEN i + 1 ELSE i
        last == IF CharAt(s, first, "0") THEN first + 1 ELSE DigitsEnd(s, first)
    IN  IF last = first THEN NotParsed
        ELSE Parsed(IntVal(Accumulate(SubSeq(s, first, last - 1), 0,
                                      IF negative THEN -1 ELSE 1)), last)

RECURSIVE ParseValue(_, _)
RECURSIVE ParseMembers(_, _, _)
RECURSIVE ParseElements(_, _, _)

\* json: the pairs of an object from the key at i on; acc holds the pairs read,
\* a key read again replacing its value
ParseMembers(s, i, acc) ==
    IF ~CharAt(s, i, "\"") THEN NotParsed
    ELSE LET key == ParseString(s, i)
             colon == SkipSpaces(s, key.pos)
             value == ParseValue(s, SkipSpaces(s, colon + 1))
             next == SkipSpaces(s, value.pos)
             pairs == [k \in DOMAIN acc \cup {key.val.v} |->
                          IF k = key.val.v THEN value.val ELSE acc[k]]
         IN  IF ~key.ok \/ ~CharAt(s, colon, ":") THEN NotParsed
             ELSE IF ~value.ok THEN NotParsed
             ELSE IF CharAt(s, next, "}") THEN Parsed(DictVal(pairs), next + 1)
             ELSE IF CharAt(s, next, ",") THEN ParseMembers(s, SkipSpaces(s, next + 1), pairs)
             ELSE NotParsed

\* json: the elements of an array from the value at i on
ParseElements(s, i, acc) ==
    LET value == ParseValue(s, i)
        next == SkipSpaces(s, value.pos)
    IN  IF ~value.ok THEN NotParsed
        ELSE IF CharAt(s, next, "]") THEN Parsed(ListVal(Append(acc, value.val)), next + 1)
        ELSE IF CharAt(s, next, ",")
        THEN ParseElements(s, SkipSpaces(s, next + 1), Append(acc, value.val))
        ELSE NotParsed

\* json: the value that starts at i
ParseValue(s, i) ==
    IF i > Len(s) THEN NotParsed
    ELSE IF s[i] = "\"" THEN ParseString(s, i)
    ELSE IF s[i] = "{"
    THEN (IF CharAt(s, SkipSpaces(s, i + 1), "}")
          THEN Parsed(DictVal(<<>>), SkipSpaces(s, i + 1) + 1)
          ELSE ParseMembers(s, SkipSpaces(s, i + 1), <<>>))
    ELSE IF s[i] = "["
    THEN (IF CharAt(s, SkipSpaces(s, i + 1), "]")
          THEN Parsed(ListVal(<<>>), SkipSpaces(s, i + 1) + 1)
          ELSE ParseElements(s, SkipSpaces(s, i + 1), <<>>))
    ELSE IF MatchAt(s, <<"t", "r", "u", "e">>, i) THEN Parsed(BoolVal(TRUE), i + 4)
    ELSE IF MatchAt(s, <<"f", "a", "l", "s", "e">>, i) THEN Parsed(BoolVal(FALSE), i + 5)
    ELSE IF MatchAt(s, <<"n", "u", "l", "l">>, i) THEN Parsed(NoneVal, i + 4)
    ELSE ParseNumber(s, i)

\* utils.py:289  json.loads: one value between whitespace and nothing after it;
\* ok is FALSE for the text that raises JSONDecodeError
json_loads(s) ==
    LET value == ParseValue(s, SkipSpaces(s, 1))
    IN  IF value.ok /\ SkipSpaces(s, value.pos) = Len(s) + 1 THEN value ELSE NotParsed

\* utils.py:288  match.group(1)
json_data_string(html_string) ==
    SubSeq(html_string, re_search(html_string)[1], re_search(html_string)[2])

\* json.JSONDecodeError leaves the function
pnr_decode_raises(t) ==
    [escaped |-> TRUE, ret |-> Envelope(FALSE, t, StrVal(<<>>))]

\* utils.py:300-306  the except json.JSONDecodeError handler
pnr_decode_handler(t) ==
    [escaped |-> FALSE, ret |-> Envelope(FALSE, t, StrVal(MsgPnrParse))]

\* No match reported with the message of a body that is not JSON.
pnr_not_found_as_parse(t) ==
    [escaped |-> FALSE, ret |-> Envelope(FALSE, t, StrVal(MsgPnrParse))]

\* utils.py:294-297  no match
pnr_not_found(t) ==
    [escaped |-> FALSE, ret |-> Envelope(FALSE, t, StrVal(MsgPnrNotFound))]

\* utils.py:279-313  json.loads raises nothing but JSONDecodeError on these
\* pages, so the handler of lines 307-313 does not run.
pnr_status_logic(html_string, t) ==
    IF re_search(html_string) = <<0, 0>> THEN pnr_not_found(t)
    ELSE LET parsed_data == json_loads(json_data_string(html_string))
         IN  IF ~parsed_data.ok THEN pnr_decode_handler(t)
             ELSE [escaped |-> FALSE, ret |-> Envelope(TRUE, t, parsed_data.val)]

(***************************************************************************)
(* live_station_logic                                                      *)
(*                                                                         *)
(* The document is the parsed tree, its elements listed in document order: *)
(* each holds its tag, its class, the position of its parent (0 for the    *)
(* top of the document) and the text ahead of its children.                *)
(***************************************************************************)

ARROW == <<"→">>

Element(tag, cls, parent, text) ==
    [tag |-> tag, cls |-> cls, parent |-> parent, text |-> text]

RECURSIVE ancestors(_, _)
\* The positions of the elements that enclose element i.
ancestors(soup, i) ==
    IF soup[i].parent = 0 THEN {}
    ELSE {soup[i].parent} \cup ancestors(soup, soup[i].parent)

RECURSIVE lstrip(_)
lstrip(s) == IF s # <<>> /\ IsSpace(s[1]) THEN lstrip(Tail(s)) ELSE s

RECURSIVE rstrip(_)
rstrip(s) ==
    IF s # <<>> /\ IsSpace(s[Len(s)]) THEN rstrip(SubSeq(s, 1, Len(s) - 1)) ELSE s

\* str.strip()
strip(s) == rstrip(lstrip(s))

\* s[:n]
slice_to(s, n) == SubSeq(s, 1, IF Len(s) < n THEN Len(s) ELSE n)

\* s[n:]
slice_from(s, n) == SubSeq(s, n + 1, Len(s))

RECURSIVE texts_from(_, _, _)
\* The stripped texts of element i and of the elements it encloses, from
\* position j on, joined in document order.
texts_from(soup, i, j) ==
    IF j > Len(soup) THEN <<>>
    ELSE IF j = i \/ i \in ancestors(soup, j)
    THEN strip(soup[j].text) \o texts_from(soup, i, j + 1)
    ELSE <<>>

\* utils.py:235  get_text(strip=True)
get_text(soup, i) == texts_from(soup, i, i)

\* Only the div elements of class name.
select_name_div(soup) ==
    SelectSeq([i \in 1..Len(soup) |-> i],
              LAMBDA i : soup[i].cls = "name" /\ soup[i].tag = "div")

\* utils.py:231  soup.select('.name'): the positions of the elements of class
\* name, in document order
select_name(soup) ==
    SelectSeq([i \in 1..Len(soup) |-> i], LAMBDA i : soup[i].cls = "name")

\* utils.py:240  find_next_sibling(tag): the first later element of the same
\* parent with that tag, 0 for None
find_next_sibling(soup, i, tag) ==
    LET later == {j \in (i + 1)..Len(soup) :
                     soup[j].parent = soup[i].parent /\ soup[j].tag = tag}
    IN  IF later = {} THEN 0 ELSE CHOOSE j \in later : \A k \in later : j <= k

RECURSIVE find_parent(_, _, _)
\* utils.py:251  find_parent(tag): the nearest enclosing element with that tag,
\* 0 for None
find_parent(soup, i, tag) ==
    IF soup[i].parent = 0 THEN 0
    ELSE IF soup[soup[i].parent].tag = tag THEN soup[i].parent
    ELSE find_parent(soup, soup[i].parent, tag)

\* utils.py:240-249  the station names of the next div
source_dest_parts(soup, item_name_el) ==
    LET next_div == find_next_sibling(soup, item_name_el, "div")
    IN  IF next_div = 0 THEN <<>> ELSE Split(get_text(soup, next_div), ARROW)

\* utils.py:251-263  the text of the cell after the enclosing cell
status_text(soup, item_name_el) ==
    LET parent_td == find_parent(soup, item_name_el, "td")
        next_status_td == IF parent_td = 0 THEN 0
                          ELSE find_next_sibling(soup, parent_td, "td")
    IN  IF next_status_td = 0 THEN <<>> ELSE get_text(soup, next_status_td)

\* utils.py:232-265  obj for one element of class name
live_entry(soup, item_name_el) ==
    LET full_train_text == get_text(soup, item_name_el)
        parts == source_dest_parts(soup, item_name_el)
    IN  [train_no |-> slice_to(full_train_text, 5),
         train_name |-> strip(slice_from(full_train_text, 5)),
         source_stn_name |-> IF Len(parts) > 0 THEN strip(parts[1]) ELSE <<>>,
         dstn_stn_name |-> IF Len(parts) > 1 THEN strip(parts[2]) ELSE <<>>,
         time_at |-> slice_to(status_text(soup, item_name_el), 5),
         detail |-> strip(slice_from(status_text(soup, item_name_el), 5))]

\* utils.py:225-277  None of the operations above raises on a parsed document,
\* so the handler of lines 270-277 does not run.
live_station_logic(soup, t) ==
    LET names == select_name(soup)
    IN  [escaped |-> FALSE,
         ret |-> Envelope(TRUE, t,
                          ListVal([k \in 1..Len(names) |-> live_entry(soup, names[k])]))]

(***************************************************************************)
(* The views that chain decoders: get_train_on_view and get_route_view.    *)
(***************************************************************************)

\* JsonResponse(body, status=status)
JsonResponse(body, status) == [status |-> status, body |-> body]

\* {'success': False, 'error': msg}
ErrorBody(msg) == [success |-> FALSE, error |-> msg]

\* What the upstream site does with a request: it answers with text, answers
\* with an error status (raise_for_status raises HTTPStatusError), or the
\* request itself fails (RequestError).
Answer(text) == [kind |-> "ok", text |-> text]
StatusError(text) == [kind |-> "status", text |-> text]
RequestError == [kind |-> "request", text |-> <<>>]
Outcomes(text) == {Answer(text), StatusError(text), RequestError}

\* views.py:129-131, 172-173  except httpx.HTTPStatusError, the status being 503
http_status_handler(e) ==
    [status |-> 503,
     body |-> ErrorBody(MsgHttpError \o <<"5", "0", "3", " ", "-", " ">> \o e.text)]

\* views.py:132-133, 174-175  except httpx.RequestError
request_error_handler == JsonResponse(ErrorBody(MsgRequestFailed), 500)

\* views.py:134-136, 176-178  except Exception
unexpected_handler == JsonResponse(ErrorBody(MsgUnexpected), 500)

\* views.py:76-80, 85-89, 110-114  the view's own failure, int(time.time() * 1000) being t
view_failure(t, msg, status) == JsonResponse(Envelope(FALSE, t, StrVal(msg)), status)

\* views.py:95  ua_parse(...).toString(): the UserAgent object of user_agents
\* has no attribute toString, so the call raises AttributeError
user_agent_toString_raises == TRUE

\* views.py:121-122  0 <= day_index < len(running_days) and running_days[day_index] == 1
runs_on(train_details, day_index) ==
    LET days == train_details.train_base.running_days
    IN  /\ 0 <= day_index
        /\ day_index < Len(days)
        /\ days[day_index + 1] = 1

\* views.py:117-123  filtered_trains
filtered_trains(data, day_index) ==
    SelectSeq(data, LAMBDA train_details : runs_on(train_details, day_index))

\* views.py:103-128  from the decoded payload to the response
train_on_decoded(initial_json, date_parts, t) ==
    IF initial_json.escaped THEN unexpected_handler
    ELSE IF ~initial_json.ret.success THEN JsonResponse(initial_json.ret, 200)
    ELSE LET day_index == get_day_on_date_logic(date_parts[1], date_parts[2], date_parts[3])
         IN  IF day_index.escaped THEN unexpected_handler
             ELSE IF day_index.ret = -1 THEN view_failure(t, MsgInvalidDate, 400)
             ELSE JsonResponse(
                      Envelope(TRUE, t,
                               ListVal(IF initial_json.ret.data.type = "list"
                                       THEN filtered_trains(initial_json.ret.data.v, day_index.ret)
                                       ELSE <<>>)), 200)

\* views.py:68-136  the response to from, to and date when the upstream
\* request has the outcome upstream; a missing parameter is the empty string
get_train_on_view(station_from, station_to, date_str, upstream, t) ==
    IF station_from = <<>> \/ station_to = <<>> \/ date_str = <<>>
    THEN view_failure(t, MsgParamsRequired, 400)
    ELSE IF Len(Split(date_str, <<"-">>)) # 3
    THEN view_failure(t, MsgInvalidDateFormat, 400)
    ELSE IF user_agent_toString_raises THEN unexpected_handler
    ELSE IF upstream.kind = "status" THEN http_status_handler(upstream)
    ELSE IF upstream.kind = "request" THEN request_error_handler
    ELSE train_on_decoded(between_station_logic(upstream.text, t),
                          Split(date_str, <<"-">>), t)

\* The number of the train taken for its id.
chain_train_no(data) == data.train_no

\* views.py:157  train_info_json["data"].get("train_id")
chain_train_id(data) == data.train_id

\* views.py:153-159  the response that ends the chain after the first decode,
\* none when the route is to be asked for
details_response(train_info_json) ==
    IF train_info_json.escaped THEN <<unexpected_handler>>
    ELSE IF ~train_info_json.ret.success \/ train_info_json.ret.data.v = <<>>
    THEN <<JsonResponse(train_info_json.ret, 200)>>
    ELSE IF chain_train_id(train_info_json.ret.data.v) = <<>>
    THEN <<JsonResponse(ErrorBody(MsgNoTrainId), 500)>>
    ELSE <<>>

\* views.py:145  the request for the details of train_no
details_request(train_no) == [url |-> "getTrains", data |-> train_no]

\* views.py:162-163  the request for the route of train_id
route_request(train_id) == [url |-> "TRAINROUTE", data |-> train_id]

(***************************************************************************)
(* The payloads: every concatenation of at most MaxChunks chunks of the    *)
(* corpus of the endpoint.                                                 *)
(***************************************************************************)

RECURSIVE JoinTilde(_)
\* "~".join(fields)
JoinTilde(fields) ==
    IF fields = <<>> THEN <<>>
    ELSE IF Len(fields) = 1 THEN fields[1]
    ELSE fields[1] \o TILDE \o JoinTilde(Tail(fields))

\* One one-character field per character of cs.
FieldsOf(cs) == [i \in 1..Len(cs) |-> <<cs[i]>>]

\* Fields 0..12 of two different trains.
LettersA == <<"1", "A", "p", "P", "q", "Q", "r", "R", "s", "S", "t", "u", "v">>
LettersB == <<"2", "B", "f", "F", "g", "G", "h", "H", "j", "J", "k", "l", "m">>
DaysA == <<"Y", "N", "N", "Y", "Y", "N", "Y">>
DaysB == <<"Y", "N">>

\* "~^", the 14 fields of train A, running on "YNNYYNY", and "~~~~~~~~"
RecA == MARK \o JoinTilde(FieldsOf(LettersA) \o <<DaysA>>) \o SEP
\* "~^", the 14 fields of train B, whose running-days field is "YN", and "~~~~~~~~"
RecB == MARK \o JoinTilde(FieldsOf(LettersB) \o <<DaysB>>) \o SEP
\* "~^" and 13 fields, each followed by "~": one field short of a record
Rec13 == MARK \o JoinTilde(FieldsOf(LettersA)) \o TILDE
\* "~^", 13 fields and "~~~~~~~~": a segment that is no record
RecShort == MARK \o JoinTilde(FieldsOf(LettersB)) \o SEP

\* "~~~~~", the prefix of the upstream error messages
T5 == SubSeq(SEP, 1, 5)

\* Six characters of a running-days field, two of them neither "Y" nor "N".
Days6 == <<"y", "N", "x", "Y", "Y", "N">>

BetweenRecordChunks == {SEP, TILDE, MARK, RecA, RecB, Rec13, RecShort, Days6, <<"Y">>}



BetweenErrorChunks ==
    {SEP, T5, ErrTryAgain, ErrFromStation, ErrToStation, NoDirectMsg, LT, <<"x">>, RecA}

\* A first field "^", a 5-digit number, the number behind a "^", a 7-digit
\* number, a 7-letter word and a number with "^" inside it, each followed by "~".
HeadCaret == <<"^", "~">>
HeadNum == <<"1", "2", "3", "4", "5", "~">>
HeadCaretNum == <<"^", "1", "2", "3", "4", "5", "~">>
HeadNum7 == <<"1", "2", "3", "4", "5", "6", "7", "~">>
HeadLong == <<"S", "H", "A", "T", "A", "B", "D", "~">>
HeadMixed == <<"^", "1", "^", "2", "~">>

\* 15 fields of a first segment: a 7-letter word, a 9-letter word, ten
\* one-character fields, "YNNYYNY", "YN" and a last field.
Rest15 ==
    JoinTilde(<< <<"E", "X", "P", "R", "E", "S", "S">>,
                 <<"I", "N", "T", "E", "R", "C", "I", "T", "Y">> >>
              \o FieldsOf(<<"c", "d", "e", "f", "g", "h", "i", "j", "k", "l">>)
              \o <<DaysA, DaysB, <<"w">> >>)

\* "~~~~~~~~" and the 20 fields of a second segment.
Seg2 ==
    SEP \o JoinTilde(FieldsOf(<<"a", "b", "c", "d", "e", "f", "g", "h", "i", "j",
                                "k", "l", "m", "n", "o", "p", "q", "r", "s", "t">>))

TrainChunks ==
    {HeadCaret, HeadNum, HeadCaretNum, HeadNum7, HeadLong, HeadMixed, Rest15, Seg2, SEP,
     TILDE}

TrainErrorChunks == {ErrTryAgain, ErrTrainNotFound, SEP, <<"x">>, Rest15, Seg2}

\* "~^" and the 10 fields of two different stops; "~^" and 9 fields, each
\* followed by "~": one field short of a stop.
StopA == MARK \o JoinTilde(FieldsOf(<<"0", "A", "a", "p", "q", "x", "r", "s", "y", "t">>))
StopB == MARK \o JoinTilde(FieldsOf(<<"1", "B", "b", "f", "g", "x", "h", "j", "y", "k">>))
Stop9 == MARK \o JoinTilde(FieldsOf(<<"2", "C", "c", "u", "v", "x", "w", "z", "y">>)) \o TILDE

RouteChunks == {MARK, TILDE, StopA, StopB, Stop9, <<"Z">>}

\* The dd, mm and yyyy strings of a request.
DayStrs ==
    {<<"1">>, <<"3">>, <<"0", "3">>, <<"2", "9">>, <<"3", "0">>, <<"3", "1">>, <<"3", "2">>,
     <<"0">>, <<"-", "1">>, <<"x">>, CIntMinMagnitude}
MonthStrs ==
    {<<"1">>, <<"2">>, <<"0", "2">>, <<"4">>, <<"1", "2">>, <<"1", "3">>, <<"0">>, <<>>}
YearStrs ==
    {<<"2", "0", "2", "4">>, <<"2", "0", "2", "3">>, <<"1", "9", "0", "0">>,
     <<"2", "0", "0", "0">>, <<"1">>, <<"0">>, <<"9", "9", "9", "9">>,
     <<"1", "0", "0", "0", "0">>, CIntMax, CIntMinMagnitude,
     <<"9", "9", "9", "9", "9", "9", "9", "9", "9", "9", "9">>}


\* Pieces of a PNR page.
PData == <<"d", "a", "t", "a", " ", "=", " ", "{">>
PDataLines == <<"x", "d", "a", "t", "a", "\n", "=", "\n", "{", " ">>
PairA == <<"\"", "a", "\"", ":", "1">>
PairNested == <<"\"", "a", "\"", ":", "{", "\"", "b", "\"", ":", "[", "1", ",", "\"", "c", "\"", "]", "}">>
PairCut == <<"\"", "a", "\"", ":", "\"", "}", ";", "\"">>
PairTwice == <<"\"", "a", "\"", ":", "1", ",", "\n", "\"", "a", "\"", ":", "n", "u", "l", "l">>
PEnd == <<"}", ";">>

PnrChunks ==
    {PData, PDataLines, PairA, PairNested, PairCut, PairTwice, PEnd, <<"}">>, <<",">>}

\* The elements a station page is made of: tag, class and text.
NodeKinds ==
    {<<"div", "name", <<" ", "1", "2", "3", "4", "5", " ", "A", "B", " ">>>>,
     <<"span", "name", <<"1", "2", "3">>>>,
     <<"div", "", <<"A", " ", "→", " ", "B">>>>,
     <<"div", "", <<" ", "A">>>>,
     <<"td", "", <<>>>>,
     <<"td", "", <<"1", "0", ":", "3", "0", " ", "L", "a", "t", "e">>>>}

\* Payloads and dates of a trains-on-date request: records with running days
\* "YNNYYNY", "YN" and "NYNNYNN", and an upstream error; a Wednesday, a Monday,
\* 31 February, a date of two parts, a year past the C int and a day that is
\* no number.
DaysC == <<"N", "Y", "N", "N", "Y", "N", "N">>
RecC == MARK \o JoinTilde(FieldsOf(LettersB) \o <<DaysC>>) \o SEP
TrainOnChunks == {RecA, RecB, RecC, ErrTryAgain}
DateStrs ==
    {<<"3", "-", "1", "-", "2", "0", "2", "4">>,
     <<"1", "-", "1", "-", "2", "0", "2", "4">>,
     <<"3", "1", "-", "2", "-", "2", "0", "2", "4">>,
     <<"1", "-", "1">>,
     <<"1", "-", "1", "-", "2", "1", "4", "7", "4", "8", "3", "6", "4", "8">>,
     <<"x", "-", "1", "-", "2", "0", "2", "4">>,
     <<>>}

\* Payloads of the two requests of a route lookup.
RouteChainChunks == {HeadNum, Rest15, Seg2, ErrTrainNotFound}
RouteTexts == {<<>>, StopA, StopA \o StopB, Stop9}
(***************************************************************************)
(* Concurrent invocations of between_station_logic and get_route_logic.    *)
(* A task runs one invocation at a time; an invocation is interleaved with *)
(* the others between the iterations of its loop. arr and retval are       *)
(* locals: each invocation has them in a frame of its own.                 *)
(***************************************************************************)

Tasks == 1..MaxTasks

\* The payloads the tasks decode.
TaskInputs(fn) ==
    IF fn = "route" THEN {StopA \o StopB, Stop9 \o StopB}
    ELSE {RecA \o RecC, ErrTryAgain}

\* All tasks writing one frame, as if arr were a module-level list.
frame_shared(task) == 1

\* utils.py:14-15, 178-179  arr = [] and retval = {} are created by the call:
\* the frame of the invocation that task runs
frame_of(task) == task

\* utils.py:64, 181  data_segments
task_segments(fn, api_response_text) ==
    IF fn = "route" THEN NonEmpty(Split(api_response_text, MARK))
    ELSE NonEmpty(Split(api_response_text, SEP))

\* utils.py:23-71, 183-189  the invocation returns before its loop
returns_early(fn, api_response_text) ==
    \/ task_segments(fn, api_response_text) = <<>>
    \/ fn = "between" /\ no_direct_check(api_response_text)
    \/ fn = "between" /\ between_error_check(api_response_text)

\* What the decoder fn returns for the text
decode(fn, api_response_text, t) ==
    IF fn = "route" THEN get_route_logic(api_response_text, t)
    ELSE between_station_logic(api_response_text, t)

\* utils.py:73-112, 191-204  one iteration of the loop on arr
iterate(fn, segment, arr) ==
    IF fn = "route" THEN collect_stops(<<segment>>, arr) ELSE collect_trains(<<segment>>, arr)

\* utils.py:114-129, 206-215  the return after the loop
after_loop(fn, arr, t) ==
    IF arr # <<>> THEN Envelope(TRUE, t, ListVal(arr))
    ELSE IF fn = "route" THEN Envelope(FALSE, t, StrVal(MsgRouteUnparsed))
    ELSE empty_arr_result(t)

\* utils.py:131-138, 217-223  the except Exception handler
task_handler(fn, t) == IF fn = "route" THEN route_handler(t).ret ELSE between_handler(t).ret
(***************************************************************************)
(* The state machine.                                                      *)
(***************************************************************************)

VARIABLES
    endpoint,   \* the decoder the request is for
    corpus,     \* the chunks the payload is made of
    raw,        \* the payload received so far
    nfed,       \* the number of chunks in raw
    pc,         \* "feed" while the payload arrives, "done" once decoded
    result,     \* the envelope the decoder returned
    escaped,    \* an exception left the function called
    soup,       \* the parsed station page, its elements in document order
    date,       \* <<dd_str, mm_str, yyyy_str>> of a day-index call
    day_index,  \* what get_day_on_date_logic returned
    request,    \* the parameters of the request a view handles
    sent,       \* the requests the view has sent upstream, in order
    received,   \* the outcomes of those requests, in order
    response,   \* the JsonResponse of the view
    tasks,      \* what each concurrent task is doing
    frames      \* arr of each frame

vars == <<endpoint, corpus, raw, nfed, pc, result, escaped, soup, date, day_index, request, sent, received, response, tasks, frames>>

Chunks(c) ==
    CASE c = "between_records" -> BetweenRecordChunks
      [] c = "between_errors" -> BetweenErrorChunks
      [] c = "train" -> TrainChunks
      [] c = "train_errors" -> TrainErrorChunks
      [] c = "route" -> RouteChunks
      [] c = "pnr" -> PnrChunks
      [] c = "train_on" -> TrainOnChunks
      [] c = "route_chain" -> RouteChainChunks
      [] OTHER -> {}

Corpora ==
    {<<"between", "between_records">>, <<"between", "between_errors">>,
     <<"train", "train">>, <<"train", "train_errors">>,
     <<"route", "route">>, <<"pnr", "pnr">>, <<"live", "none">>, <<"day", "none">>,
     <<"train_on", "train_on">>, <<"route_chain", "route_chain">>,
     <<"tasks", "none">>}

NoResult == Envelope(FALSE, 0, StrVal(<<>>))

IdleTask ==
    [fn |-> "", input |-> <<>>, segments |-> <<>>, at |-> "idle", ret |-> NoResult]

NoRequest == [station_from |-> <<>>, station_to |-> <<>>, date_str |-> <<>>, train_no |-> <<>>]

NoResponse == JsonResponse(ErrorBody(<<>>), 0)

Init ==
    /\ \E ec \in Corpora : endpoint = ec[1] /\ corpus = ec[2]
    /\ raw = <<>>
    /\ nfed = 0
    /\ pc = "feed"
    /\ result = NoResult
    /\ escaped = FALSE
    /\ soup = <<>>
    /\ date = <<>>
    /\ day_index = 0
    /\ request = NoRequest
    /\ sent = <<>>
    /\ received = <<>>
    /\ response = NoResponse
    /\ tasks = [k \in Tasks |-> IdleTask]
    /\ frames = [k \in Tasks |-> <<>>]

\* One more chunk of the upstream response arrives.
Feed ==
    /\ pc = "feed"
    /\ nfed < MaxChunks
    /\ \E c \in Chunks(corpus) : raw' = raw \o c
    /\ nfed' = nfed + 1
    /\ UNCHANGED <<endpoint, corpus, pc, result, escaped, soup, date, day_index, request, sent, received, response, tasks, frames>>

\* utils.py:9-10  the time stamp is the wall clock at the return
current_timestamp_ms(ret, t) == [ret EXCEPT !.time_stamp = t]

\* The decoder returns r, its time stamp read from the clock, and the call is over.
Return(r) ==
    /\ pc = "feed"
    /\ \E t \in 0..MaxTime : result' = current_timestamp_ms(r.ret, t)
    /\ escaped' = r.escaped
    /\ pc' = "done"
    /\ UNCHANGED <<endpoint, corpus, raw, nfed, soup, date, day_index, request, sent, received, response, tasks, frames>>

\* views.py:56  utils.between_station_logic(data_text)
BetweenStation ==
    /\ endpoint = "between"
    /\ Return(between_station_logic(raw, 0))

\* views.py:27  utils.check_train_logic(data_text)
CheckTrain ==
    /\ endpoint = "train"
    /\ Return(check_train_logic(raw, 0))

\* views.py:169  utils.get_route_logic(route_text)
GetRoute ==
    /\ endpoint = "route"
    /\ Return(get_route_logic(raw, 0))

\* views.py:225  utils.pnr_status_logic(data_text)
PnrStatus ==
    /\ endpoint = "pnr"
    /\ Return(pnr_status_logic(raw, 0))

\* The elements the parser has open: a new element goes under one of them, or
\* at the top of the document
OpenElements(doc) ==
    IF doc = <<>> THEN {0} ELSE {0, Len(doc)} \cup ancestors(doc, Len(doc))

\* views.py:195  BeautifulSoup(html_data, 'html.parser') reads one more element.
ParseElement ==
    /\ endpoint = "live"
    /\ pc = "feed"
    /\ Len(soup) < MaxNodes
    /\ \E k \in NodeKinds, p \in OpenElements(soup) :
          soup' = Append(soup, Element(k[1], k[2], p, k[3]))
    /\ UNCHANGED <<endpoint, corpus, raw, nfed, pc, result, escaped, date, day_index, request, sent, received, response, tasks, frames>>

\* views.py:197  utils.live_station_logic(soup)
LiveStation ==
    /\ endpoint = "live"
    /\ Return(live_station_logic(soup, 0))

\* views.py:108  utils.get_day_on_date_logic(dd, mm, yyyy)
GetDayOnDate ==
    /\ endpoint = "day"
    /\ pc = "feed"
    /\ \E dd \in DayStrs, mm \in MonthStrs, yyyy \in YearStrs :
          LET r == get_day_on_date_logic(dd, mm, yyyy)
          IN  /\ date' = <<dd, mm, yyyy>>
              /\ day_index' = r.ret
              /\ escaped' = r.escaped
    /\ pc' = "done"
    /\ UNCHANGED <<endpoint, corpus, raw, nfed, result, soup, request, sent, received, response, tasks, frames>>

\* views.py:68-136  get_train_on_view answers a request; the upstream request
\* is sent, and its outcome received, when the handler gets to it.
GetTrainOn ==
    /\ endpoint = "train_on"
    /\ pc = "feed"
    /\ \E station_from \in {<<>>, <<"A">>}, date_str \in DateStrs, upstream \in Outcomes(raw),
          t \in 0..MaxTime :
          LET fetches == /\ station_from # <<>>
                         /\ date_str # <<>>
                         /\ Len(Split(date_str, <<"-">>)) = 3
                         /\ ~user_agent_toString_raises
          IN  /\ request' = [NoRequest EXCEPT !.station_from = station_from,
                                               !.station_to = <<"B">>,
                                               !.date_str = date_str]
              /\ response' = get_train_on_view(station_from, <<"B">>, date_str, upstream, t)
              /\ sent' = IF fetches THEN <<details_request(station_from \o <<"B">>)>> ELSE <<>>
              /\ received' = IF fetches THEN <<upstream>> ELSE <<>>
    /\ pc' = "done"
    /\ UNCHANGED <<endpoint, corpus, raw, nfed, result, escaped, soup, date, day_index, tasks, frames>>

\* views.py:139-149  get_route_view refuses a request without trainNo, or
\* sends the request for the details of the train.
RouteStart ==
    /\ endpoint = "route_chain"
    /\ pc = "feed"
    /\ \E train_no \in {<<>>, <<"1", "2", "3", "4", "5">>} :
          /\ request' = [NoRequest EXCEPT !.train_no = train_no]
          /\ IF train_no = <<>>
             THEN /\ response' = JsonResponse(ErrorBody(MsgTrainNoRequired), 400)
                  /\ pc' = "done"
                  /\ sent' = sent
             ELSE /\ response' = response
                  /\ pc' = "details"
                  /\ sent' = Append(sent, details_request(train_no))
    /\ UNCHANGED <<endpoint, corpus, raw, nfed, result, escaped, soup, date, day_index, received, tasks, frames>>

\* views.py:149-165  the outcome of the first request arrives: the view
\* answers with a failure, or decodes the details and sends the request for
\* the route of their train_id.
RouteDetails ==
    /\ endpoint = "route_chain"
    /\ pc = "details"
    /\ \E upstream \in Outcomes(raw), t \in 0..MaxTime :
          LET train_info_json == check_train_logic(upstream.text, t)
              ends == IF upstream.kind = "status" THEN <<http_status_handler(upstream)>>
                      ELSE IF upstream.kind = "request" THEN <<request_error_handler>>
                      ELSE details_response(train_info_json)
          IN  /\ received' = Append(received, upstream)
              /\ IF ends # <<>>
                 THEN /\ response' = ends[1]
                      /\ pc' = "done"
                      /\ sent' = sent
                 ELSE /\ response' = response
                      /\ pc' = "route"
                      /\ sent' = Append(sent, route_request(
                                     chain_train_id(train_info_json.ret.data.v)))
    /\ UNCHANGED <<endpoint, corpus, raw, nfed, result, escaped, soup, date, day_index, request, tasks, frames>>

\* views.py:165-178  the outcome of the second request arrives and the view
\* answers with the decoded route.
RouteRoute ==
    /\ endpoint = "route_chain"
    /\ pc = "route"
    /\ \E route_text \in RouteTexts, t \in 0..MaxTime :
          \E upstream \in Outcomes(route_text) :
              LET route_json == get_route_logic(upstream.text, t)
              IN  /\ received' = Append(received, upstream)
                  /\ response' = IF upstream.kind = "status" THEN http_status_handler(upstream)
                                 ELSE IF upstream.kind = "request" THEN request_error_handler
                                 ELSE IF route_json.escaped THEN unexpected_handler
                                 ELSE JsonResponse(route_json.ret, 200)
    /\ pc' = "done"
    /\ UNCHANGED <<endpoint, corpus, raw, nfed, result, escaped, soup, date, day_index, request,
                   sent, tasks, frames>>

\* The state of the views and of the single call, which the tasks leave alone.
single == <<endpoint, corpus, raw, nfed, pc, result, escaped, soup, date, day_index, request,
            sent, received, response>>

\* utils.py:12-71, 176-189  a task that runs no invocation calls a decoder:
\* the call creates arr, and returns at once or enters the loop.
TaskCall(k) ==
    /\ endpoint = "tasks"
    /\ tasks[k].at \in {"idle", "returned"}
    /\ \E fn \in {"between", "route"} :
          \E api_response_text \in TaskInputs(fn) :
              /\ frames' = [frames EXCEPT ![frame_of(k)] = <<>>]
              /\ IF returns_early(fn, api_response_text)
                 THEN \E t \in 0..MaxTime :
                          tasks' = [tasks EXCEPT ![k] =
                                       [fn |-> fn, input |-> api_response_text,
                                        segments |-> <<>>, at |-> "returned",
                                        ret |-> decode(fn, api_response_text, t).ret]]
                 ELSE tasks' = [tasks EXCEPT ![k] =
                                   [fn |-> fn, input |-> api_response_text,
                                    segments |-> task_segments(fn, api_response_text),
                                    at |-> "loop", ret |-> NoResult]]
    /\ UNCHANGED single

\* utils.py:73-112, 191-204  a task runs one iteration of its loop: the
\* segment is decoded and appended to arr, or the handler returns.
TaskIterate(k) ==
    /\ endpoint = "tasks"
    /\ tasks[k].at = "loop"
    /\ tasks[k].segments # <<>>
    /\ LET got == iterate(tasks[k].fn, Head(tasks[k].segments), frames[frame_of(k)])
       IN  IF got.exc # ""
           THEN /\ \E t \in 0..MaxTime :
                      tasks' = [tasks EXCEPT ![k].at = "returned",
                                             ![k].ret = task_handler(tasks[k].fn, t)]
                /\ frames' = frames
           ELSE /\ tasks' = [tasks EXCEPT ![k].segments = Tail(tasks[k].segments)]
                /\ frames' = [frames EXCEPT ![frame_of(k)] = got.arr]
    /\ UNCHANGED single

\* utils.py:114-129, 206-215  the loop is over and the task returns arr.
TaskReturn(k) ==
    /\ endpoint = "tasks"
    /\ tasks[k].at = "loop"
    /\ tasks[k].segments = <<>>
    /\ \E t \in 0..MaxTime :
          tasks' = [tasks EXCEPT ![k].at = "returned",
                                 ![k].ret = after_loop(tasks[k].fn, frames[frame_of(k)], t)]
    /\ frames' = frames
    /\ UNCHANGED single

\* The diagnostic of a failed decode is given to the same decoder as its input.
FeedBack ==
    /\ pc = "done"
    /\ endpoint \in {"between", "train", "route", "pnr"}
    /\ ~escaped
    /\ ~result.success
    /\ raw' = result.data.v
    /\ nfed' = MaxChunks
    /\ pc' = "feed"
    /\ result' = NoResult
    /\ UNCHANGED <<endpoint, corpus, escaped, soup, date, day_index, request, sent, received, response, tasks, frames>>

Next ==
    \/ Feed
    \/ BetweenStation
    \/ CheckTrain
    \/ GetRoute
    \/ PnrStatus
    \/ ParseElement
    \/ LiveStation
    \/ GetDayOnDate
    \/ GetTrainOn
    \/ RouteStart
    \/ RouteDetails
    \/ RouteRoute
    \/ \E k \in Tasks : TaskCall(k)
    \/ \E k \in Tasks : TaskIterate(k)
    \/ \E k \in Tasks : TaskReturn(k)
    \/ FeedBack

Spec == Init /\ [][Next]_vars

(***************************************************************************)
(* The properties.                                                         *)
(***************************************************************************)

\* The decoder of endpoint ep has returned.
Decoded(ep) == pc = "done" /\ endpoint = ep

\* The text before the first "~~~~~~~~" of text, all of it when there is none.
FirstSegment(text) ==
    LET k == Find(text, SEP, 1)
    IN  IF k = 0 THEN text ELSE SubSeq(text, 1, k - 1)

\* The part of s before its first ch, all of s when it has none.
BeforeFirst(s, ch) ==
    LET k == Find(s, ch, 1)
    IN  IF k = 0 THEN s ELSE SubSeq(s, 1, k - 1)

\* The non-empty "~"-separated fields of s.
TildeFields(s) == NonEmpty(Split(s, TILDE))

\* The first segment, split on "~", has an element 5 whose part before the
\* first "<" is exactly "No direct trains found".
NoDirectCase(text) ==
    LET elems == Split(FirstSegment(text), TILDE)
    IN  Len(elems) >= 6 /\ BeforeFirst(elems[6], LT) = NoDirectMsg

\* An error message without its five leading "~": the message with every "~" removed.
Stripped(err) == SubSeq(err, 6, Len(err))

\* A segment of the train list that yields a record.
UsableSegment(seg) ==
    /\ Len(Split(seg, MARK)) = 2
    /\ Len(TildeFields(Split(seg, MARK)[2])) >= 14

\* The segments of the train list that yield a record, in input order.
UsableSegments(text) == SelectSeq(NonEmpty(Split(text, SEP)), UsableSegment)

\* The fields of the record of a usable segment.
RecordFields(seg) == TildeFields(Split(seg, MARK)[2])

\* Entry e is {train_base: o} with fields 0..13 of fs mapped by position.
IsSummaryOf(e, fs) ==
    /\ DOMAIN e = {"train_base"}
    /\ e.train_base.train_no = fs[1]
    /\ e.train_base.train_name = fs[2]
    /\ e.train_base.source_stn_name = fs[3]
    /\ e.train_base.source_stn_code = fs[4]
    /\ e.train_base.dstn_stn_name = fs[5]
    /\ e.train_base.dstn_stn_code = fs[6]
    /\ e.train_base.from_stn_name = fs[7]
    /\ e.train_base.from_stn_code = fs[8]
    /\ e.train_base.to_stn_name = fs[9]
    /\ e.train_base.to_stn_code = fs[10]
    /\ e.train_base.from_time = fs[11]
    /\ e.train_base.to_time = fs[12]
    /\ e.train_base.travel_time = fs[13]
    /\ e.train_base.running_days_str = fs[14]

\* o.running_days is the parse of o.running_days_str, or empty when its length is not 7.
RunningDaysParsed(o) ==
    /\ Len(o.running_days) = 7 <=> Len(o.running_days_str) = 7
    /\ Len(o.running_days_str) = 7 =>
          \A i \in 1..7 : o.running_days[i] = IF o.running_days_str[i] = "Y" THEN 1 ELSE 0
    /\ Len(o.running_days_str) # 7 => o.running_days = <<>>

TrainSummaryKeys ==
    {"train_no", "train_name", "source_stn_name", "source_stn_code", "dstn_stn_name",
     "dstn_stn_code", "from_stn_name", "from_stn_code", "to_stn_name", "to_stn_code",
     "from_time", "to_time", "travel_time", "running_days_str", "running_days"}

TrainDetailKeys ==
    {"train_no", "train_name", "from_stn_name", "from_stn_code", "to_stn_name",
     "to_stn_code", "from_time", "to_time", "travel_time", "running_days_str",
     "running_days", "type", "train_id", "distance_from_to", "average_speed"}

RouteStopKeys ==
    {"source_stn_name", "source_stn_code", "arrive", "depart", "distance", "day", "zone"}

\* C2: when the first segment of the payload is exactly one of the upstream
\* error messages of the decoder, the decoder returns success=false with that
\* message without its "~", whatever follows the first segment.
UpstreamErrorReported ==
    /\ Decoded("between") /\ FirstSegment(raw) \in {ErrTryAgain, ErrFromStation, ErrToStation}
          => ~escaped /\ ~result.success /\ result.data = StrVal(Stripped(FirstSegment(raw)))
    /\ Decoded("train") /\ FirstSegment(raw) \in {ErrTryAgain, ErrTrainNotFound}
          => ~escaped /\ ~result.success /\ result.data = StrVal(Stripped(FirstSegment(raw)))

\* C2 witness: the train list decoder has answered a payload whose first segment
\* is "~~~~~From station not found" and that goes on with a record.
UpstreamErrorReportedWitness ==
    /\ Decoded("between")
    /\ FirstSegment(raw) = ErrFromStation
    /\ Contains(raw, RecA)
    /\ result.data = StrVal(Stripped(ErrFromStation))

\* C3: on a payload that hits no error check the train list decoder returns
\* success with one {train_base: TrainSummary} per usable segment, in input
\* order, fields 0..12 mapped by position and field 13 the running-days string;
\* the other segments contribute nothing.
TrainListMapped ==
    Decoded("between") =>
        LET usable == UsableSegments(raw)
        IN  /\ result.success <=>
                  /\ ~NoDirectCase(raw)
                  /\ FirstSegment(raw) \notin {ErrTryAgain, ErrFromStation, ErrToStation}
                  /\ usable # <<>>
            /\ result.success =>
                  /\ result.data.type = "list"
                  /\ Len(result.data.v) = Len(usable)
                  /\ \A i \in 1..Len(usable) :
                        IsSummaryOf(result.data.v[i], RecordFields(usable[i]))

\* C3 witness: a usable segment, one with 13 fields and another usable segment
\* were decoded into two entries.
TrainListMappedWitness ==
    /\ Decoded("between")
    /\ result.success
    /\ Len(NonEmpty(Split(raw, SEP))) = 3
    /\ ~UsableSegment(NonEmpty(Split(raw, SEP))[2])
    /\ Len(UsableSegments(raw)) = 2
    /\ result.data.v[1].train_base.train_no # result.data.v[2].train_base.train_no

\* C4: in every TrainSummary and TrainDetail running_days_str is field 13
\* unchanged, running_days has length 7 exactly when running_days_str has, is
\* then 1 where the character is "Y" and 0 elsewhere, and is empty otherwise.
RunningDaysInvariant ==
    /\ Decoded("between") /\ result.success =>
          \A i \in 1..Len(result.data.v) :
              /\ RunningDaysParsed(result.data.v[i].train_base)
              /\ result.data.v[i].train_base.running_days_str
                    = RecordFields(UsableSegments(raw)[i])[14]
    /\ Decoded("train") /\ result.success =>
          /\ RunningDaysParsed(result.data.v)
          /\ result.data.v.running_days_str = repaired_part1(FirstSegment(raw))[14]

\* C4 witness: a list with a record on "YNNYYNY", parsed to 1,0,0,1,1,0,1, and a
\* record whose running-days field has another length and whose list is empty.
RunningDaysInvariantWitness ==
    /\ Decoded("between")
    /\ result.success
    /\ \E i, j \in 1..Len(result.data.v) :
          /\ result.data.v[i].train_base.running_days_str = DaysA
          /\ result.data.v[i].train_base.running_days = <<1, 0, 0, 1, 1, 0, 1>>
          /\ Len(result.data.v[j].train_base.running_days_str) # 7
          /\ result.data.v[j].train_base.running_days = <<>>

\* The diagnostics between_station_logic itself emits.
BetweenDiagnostics ==
    {NoDirectMsg, Stripped(ErrTryAgain), Stripped(ErrFromStation), Stripped(ErrToStation),
     MsgUnknownEmpty, MsgNoneParsed, MsgNoDirectOrFormat, MsgBetweenError \o MsgIndexError}

\* C5: the train list decoder never returns success with an empty list: with
\* no usable record it fails, also on the empty string and on each of its own
\* diagnostics; with no non-empty segment the diagnostic differs from the one
\* for segments of which none parsed.
NoEmptySuccess ==
    Decoded("between") =>
        /\ ~escaped
        /\ result.success => result.data.v # <<>>
        /\ UsableSegments(raw) = <<>> => ~result.success
        /\ raw = <<>> \/ raw \in BetweenDiagnostics => ~result.success
        /\ NonEmpty(Split(raw, SEP)) = <<>> => result.data = StrVal(MsgUnknownEmpty)
        /\ /\ NonEmpty(Split(raw, SEP)) # <<>>
           /\ UsableSegments(raw) = <<>>
           /\ ~NoDirectCase(raw)
           /\ FirstSegment(raw) \notin {ErrTryAgain, ErrFromStation, ErrToStation}
           => ~result.success /\ result.data # StrVal(MsgUnknownEmpty)

\* C5 witness: the decoder was given its own diagnostic for segments of which
\* none parsed, and failed again.
NoEmptySuccessWitness ==
    /\ Decoded("between")
    /\ raw = MsgNoDirectOrFormat
    /\ ~result.success
    /\ result.data.type = "str"

\* C6: the train list decoder answers exactly "No direct trains found" whenever
\* element 5 of the first segment, up to its first "<", is that phrase; when
\* other text precedes the phrase there, this check does not classify the payload.
NoDirectClassified ==
    Decoded("between") =>
        /\ NoDirectCase(raw) => ~result.success /\ result.data = StrVal(NoDirectMsg)
        /\ LET elems == Split(FirstSegment(raw), TILDE)
           IN  /\ Len(elems) >= 6
               /\ Contains(BeforeFirst(elems[6], LT), NoDirectMsg)
               /\ BeforeFirst(elems[6], LT) # NoDirectMsg
               => result.data # StrVal(NoDirectMsg)

\* C6 witness: the payload "~~~~~No direct trains found<..." was classified.
NoDirectClassifiedWitness ==
    /\ Decoded("between")
    /\ NoDirectCase(raw)
    /\ Len(Split(FirstSegment(raw), TILDE)[6]) > Len(NoDirectMsg)
    /\ result.data = StrVal(NoDirectMsg)


LiveStationEntryKeys ==
    {"train_no", "train_name", "source_stn_name", "dstn_stn_name", "time_at", "detail"}

\* A string of the model: a sequence of characters.
IsString(s) == DOMAIN s = 1..Len(s) /\ \A i \in 1..Len(s) : s[i] \in STRING

\* C1: every decoder returns an envelope with exactly the keys success,
\* time_stamp and data and raises nothing; with success=false data is a
\* diagnostic string, with success=true it has the shape the decoder declares:
\* a list of {train_base: TrainSummary}, a TrainDetail object, a list of
\* RouteStop, a list of LiveStationEntry, or the parsed JSON value.
EnvelopeContract ==
    pc = "done" /\ endpoint \in {"between", "train", "route", "pnr", "live"} =>
        /\ ~escaped
        /\ DOMAIN result = {"success", "time_stamp", "data"}
        /\ result.success \in BOOLEAN
        /\ ~result.success => result.data.type = "str" /\ result.data.v # <<>>
        /\ result.success /\ endpoint = "between" =>
              /\ result.data.type = "list"
              /\ \A i \in 1..Len(result.data.v) :
                    /\ DOMAIN result.data.v[i] = {"train_base"}
                    /\ DOMAIN result.data.v[i].train_base = TrainSummaryKeys
        /\ result.success /\ endpoint = "train" =>
              /\ result.data.type = "dict"
              /\ DOMAIN result.data.v = TrainDetailKeys
        /\ result.success /\ endpoint = "route" =>
              /\ result.data.type = "list"
              /\ \A i \in 1..Len(result.data.v) : DOMAIN result.data.v[i] = RouteStopKeys
        /\ result.success /\ endpoint = "live" =>
              /\ result.data.type = "list"
              /\ \A i \in 1..Len(result.data.v) :
                    /\ DOMAIN result.data.v[i] = LiveStationEntryKeys
                    /\ \A k \in LiveStationEntryKeys : IsString(result.data.v[i][k])
        /\ result.success /\ endpoint = "pnr" =>
              /\ result.data.type = "dict"
              /\ result.data = json_loads(json_data_string(raw)).val

\* C1 witness: the page held a data assignment whose body is not JSON, and the
\* parser's exception became a failure envelope.
EnvelopeContractWitness ==
    /\ Decoded("pnr")
    /\ re_search(raw) # <<0, 0>>
    /\ ~json_loads(json_data_string(raw)).ok
    /\ ~result.success
    /\ ~escaped
    /\ result.time_stamp = MaxTime
\* The second "~~~~~~~~"-separated segment of text.
SecondSegment(text) == Split(text, SEP)[2]

\* C7: on a payload that is no upstream error message the train detail decoder
\* succeeds exactly when there are at least 2 segments, the repaired first
\* segment has at least 15 fields and the second at least 20; the first
\* requirement violated, in that order, decides the diagnostic, and the three
\* diagnostics differ.
TrainDetailRequirements ==
    Decoded("train") /\ FirstSegment(raw) \notin {ErrTryAgain, ErrTrainNotFound} =>
        LET two == Len(Split(raw, SEP)) >= 2
            first == Len(repaired_part1(FirstSegment(raw))) >= 15
            second == Len(TildeFields(SecondSegment(raw))) >= 20
        IN  /\ ~escaped
            /\ result.success <=> two /\ first /\ second
            /\ ~two => result.data = StrVal(MsgInvalidFormat)
            /\ two /\ ~first => result.data = StrVal(MsgFirstPart)
            /\ two /\ first /\ ~second => result.data = StrVal(MsgSecondPart)
            /\ Cardinality({MsgInvalidFormat, MsgFirstPart, MsgSecondPart}) = 3

\* C7 witness: a first segment of 15 fields lost one to the repair and was
\* refused for its 14 fields, although the second segment has 20.
TrainDetailRequirementsWitness ==
    /\ Decoded("train")
    /\ Len(Split(raw, SEP)) >= 2
    /\ Len(TildeFields(FirstSegment(raw))) = 15
    /\ Len(repaired_part1(FirstSegment(raw))) = 14
    /\ Len(TildeFields(SecondSegment(raw))) >= 20
    /\ result.data = StrVal(MsgFirstPart)

\* s without its leading "^".
RECURSIVE StripLeadingCaret(_)
StripLeadingCaret(s) ==
    IF s # <<>> /\ s[1] = "^" THEN StripLeadingCaret(Tail(s)) ELSE s

\* TrainDetail o maps the fields a of the repaired first segment and b of the
\* second segment by position, train_no apart.
DetailMapped(o, a, b) ==
    /\ o.train_name = a[2]
    /\ o.from_stn_name = a[3]
    /\ o.from_stn_code = a[4]
    /\ o.to_stn_name = a[5]
    /\ o.to_stn_code = a[6]
    /\ o.from_time = a[11]
    /\ o.to_time = a[12]
    /\ o.travel_time = a[13]
    /\ o.running_days_str = a[14]
    /\ o.type = b[12]
    /\ o.train_id = b[13]
    /\ o.distance_from_to = b[19]
    /\ o.average_speed = b[20]

\* C8 as stated: on success the fields are mapped by position and train_no is
\* field 0 with only its leading "^" stripped.
TrainDetailMappedLeadingCaret ==
    Decoded("train") /\ result.success =>
        LET a == repaired_part1(FirstSegment(raw))
            b == TildeFields(SecondSegment(raw))
        IN  /\ DetailMapped(result.data.v, a, b)
            /\ result.data.v.train_no = StripLeadingCaret(a[1])

\* C8 as amended: on success the fields are mapped by position and train_no is
\* field 0 with every "^" removed, wherever it stands.
TrainDetailMapped ==
    Decoded("train") /\ result.success =>
        LET a == repaired_part1(FirstSegment(raw))
            b == TildeFields(SecondSegment(raw))
        IN  /\ DetailMapped(result.data.v, a, b)
            /\ result.data.v.train_no = SelectSeq(a[1], LAMBDA c : c # "^")

\* C8 witness: a detail was decoded whose field 0 has a "^" after its first character.
TrainDetailMappedWitness ==
    /\ Decoded("train")
    /\ result.success
    /\ LET f0 == repaired_part1(FirstSegment(raw))[1]
       IN  \E i \in 2..Len(f0) : f0[i] = "^"

\* A segment of the route that yields a stop.
UsableStop(seg) == Len(TildeFields(seg)) > 9

\* C9: the route decoder splits on "~^" and drops the empty segments; with none
\* left it fails; each segment with more than 9 fields yields one RouteStop
\* mapped by position, the others are skipped without raising; the stops keep
\* the order of their segments, and with every segment skipped the result is a
\* failure.
RouteMapped ==
    Decoded("route") =>
        LET segments == NonEmpty(Split(raw, MARK))
            usable == SelectSeq(segments, UsableStop)
        IN  /\ ~escaped
            /\ segments = <<>> => ~result.success /\ result.data = StrVal(MsgNoRoute)
            /\ segments # <<>> /\ usable = <<>>
                  => ~result.success /\ result.data = StrVal(MsgRouteUnparsed)
            /\ result.success <=> usable # <<>>
            /\ result.success =>
                  /\ result.data.type = "list"
                  /\ Len(result.data.v) = Len(usable)
                  /\ \A i \in 1..Len(usable) :
                        LET fs == TildeFields(usable[i])
                            o == result.data.v[i]
                        IN  /\ o.source_stn_code = fs[2]
                            /\ o.source_stn_name = fs[3]
                            /\ o.arrive = fs[4]
                            /\ o.depart = fs[5]
                            /\ o.distance = fs[7]
                            /\ o.day = fs[8]
                            /\ o.zone = fs[10]

\* C9 witness: two different stops were decoded around a skipped segment.
RouteMappedWitness ==
    /\ Decoded("route")
    /\ result.success
    /\ Len(NonEmpty(Split(raw, MARK))) = 3
    /\ Len(result.data.v) = 2
    /\ result.data.v[1] # result.data.v[2]

\* The weekday of a date of the Gregorian calendar, Monday 0, by Zeller's congruence.
ZellerWeekday(y, m, d) ==
    LET mm == IF m < 3 THEN m + 12 ELSE m
        yy == IF m < 3 THEN y - 1 ELSE y
        k == yy % 100
        j == yy \div 100
        h == (d + ((13 * (mm + 1)) \div 5) + k + (k \div 4) + (j \div 4) + 5 * j) % 7
    IN  (h + 5) % 7

\* d-m-y is a date of the calendar that datetime represents.
ValidDate(y, m, d) ==
    /\ y \in 1..9999
    /\ m \in 1..12
    /\ d >= 1
    /\ d <= (CASE m \in {4, 6, 9, 11} -> 30
               [] m = 2 -> IF y % 4 = 0 /\ (y % 100 # 0 \/ y % 400 = 0) THEN 29 ELSE 28
               [] OTHER -> 31)

\* The three strings are integers and name a valid date.
ValidDateStrings(dt) ==
    LET d == int(dt[1])
        m == int(dt[2])
        y == int(dt[3])
    IN  /\ ~d.err /\ ~m.err /\ ~y.err
        /\ ~d.big /\ ~m.big /\ ~y.big
        /\ ValidDate(y.val, m.val, d.val)

\* C10: for a valid date the day index is (w + 5) mod 7, w the weekday with
\* Monday 0, so 1-1-2024 gives 5 and 3-1-2024 gives 0; for every other
\* day/month/year combination the function returns -1 and does not raise.
DayIndexContract ==
    Decoded("day") =>
        /\ ~escaped
        /\ ValidDateStrings(date) =>
              /\ day_index = (ZellerWeekday(int(date[3]).val, int(date[2]).val,
                                            int(date[1]).val) + 5) % 7
              /\ day_index \in 0..6
        /\ ~ValidDateStrings(date) => day_index = -1
        /\ date = <<<<"1">>, <<"1">>, <<"2", "0", "2", "4">>>> => day_index = 5
        /\ date = <<<<"3">>, <<"1">>, <<"2", "0", "2", "4">>>> => day_index = 0

\* Day, month and year all fit the C int that datetime converts them to.
FitsCInt(dt) == ~int(dt[1]).big /\ ~int(dt[2]).big /\ ~int(dt[3]).big

\* What holds of the day index: C10 for the dates whose numbers fit a C int;
\* a number beyond it leaves the function as an OverflowError.
DayIndexWithinCInt ==
    Decoded("day") =>
        /\ escaped <=>
              /\ ~int(date[1]).err /\ ~int(date[2]).err /\ ~int(date[3]).err
              /\ ~FitsCInt(date)
        /\ ~escaped /\ ValidDateStrings(date) =>
              day_index = (ZellerWeekday(int(date[3]).val, int(date[2]).val,
                                         int(date[1]).val) + 5) % 7
        /\ ~escaped /\ ~ValidDateStrings(date) => day_index = -1


\* The positions <<i, open, close>> of text where "data" starts at i, "=" and
\* then "{" at open follow with only whitespace between, and a "}" at close
\* after open has a ";" right after it.
Assignments(text) ==
    LET n == Len(text)
        starts == {i \in 1..n : i + 3 <= n /\ SubSeq(text, i, i + 3) = <<"d", "a", "t", "a">>}
        equals(i) == {e \in (i + 4)..n :
                         text[e] = "=" /\ \A k \in (i + 4)..(e - 1) : IsSpace(text[k])}
        opens(e) == {o \in (e + 1)..n :
                        text[o] = "{" /\ \A k \in (e + 1)..(o - 1) : IsSpace(text[k])}
        closes(o) == {c \in (o + 1)..(n - 1) : text[c] = "}" /\ text[c + 1] = ";"}
    IN  UNION {UNION {{<<i, o, c>> : c \in closes(o)} : o \in UNION {opens(e) : e \in equals(i)}} :
               i \in starts}

\* The assignment the pattern matches: the leftmost start, and for it the first close.
FirstAssignment(text) ==
    CHOOSE a \in Assignments(text) :
        \A b \in Assignments(text) : a[1] < b[1] \/ (a[1] = b[1] /\ a[3] <= b[3])

\* The body of the first assignment, braces included.
CapturedBody(text) == SubSeq(text, FirstAssignment(text)[2], FirstAssignment(text)[3])

NonGreedyCapture ==
    Decoded("pnr") /\ Assignments(raw) # {} =>
        /\ result.success = json_loads(CapturedBody(raw)).ok
        /\ \A a \in Assignments(raw) :
              /\ a[1] = FirstAssignment(raw)[1]
              /\ a[3] > FirstAssignment(raw)[3]
              /\ json_loads(SubSeq(raw, a[2], a[3])).ok
              => ~result.success /\ result.data = StrVal(MsgPnrParse)

\* C17 witness: a page whose JSON body holds "};" inside a string, newlines
\* between the keyword and the brace, was decoded.
NonGreedyCaptureWitness ==
    /\ Decoded("pnr")
    /\ raw = PDataLines \o PairCut \o PEnd
    /\ json_loads(SubSeq(raw, 9, Len(raw) - 1)).ok
    /\ ~result.success

\* The positions of the elements of class name, in increasing order.
NameNodes(doc) == {i \in 1..Len(doc) : doc[i].cls = "name"}

\* The k-th smallest member of the set S of positions.
Nth(S, k) == CHOOSE i \in S : Cardinality({j \in S : j < i}) = k - 1

RECURSIVE JoinFrom(_, _, _, _)
\* The texts of element i and of the elements inside it from position j on,
\* joined in document order, each trimmed first when piecewise is TRUE.
JoinFrom(doc, i, j, piecewise) ==
    IF j > Len(doc) THEN <<>>
    ELSE (IF j = i \/ i \in ancestors(doc, j)
          THEN (IF piecewise THEN strip(doc[j].text) ELSE doc[j].text)
          ELSE <<>>) \o JoinFrom(doc, i, j + 1, piecewise)

\* The text of element i: its pieces trimmed one by one and joined, or the
\* whole text content trimmed at its two ends.
NodeText(doc, i, piecewise) ==
    IF piecewise THEN JoinFrom(doc, i, i, TRUE) ELSE strip(JoinFrom(doc, i, i, FALSE))

\* The later div elements with the parent of element i.
NextDivs(doc, i) ==
    {j \in (i + 1)..Len(doc) : doc[j].parent = doc[i].parent /\ doc[j].tag = "div"}

\* The td elements that enclose element i.
EnclosingCells(doc, i) == {a \in ancestors(doc, i) : doc[a].tag = "td"}

\* The later td elements with the parent of the nearest cell that encloses i.
NextCells(doc, i) ==
    IF EnclosingCells(doc, i) = {} THEN {}
    ELSE LET cell == Nth(EnclosingCells(doc, i), Cardinality(EnclosingCells(doc, i)))
         IN  {j \in (cell + 1)..Len(doc) : doc[j].parent = doc[cell].parent /\ doc[j].tag = "td"}

\* The entry e is the one of the name element i of doc, the text of an element
\* read as NodeText reads it.
EntryOf(doc, i, e, piecewise) ==
    /\ DOMAIN e = LiveStationEntryKeys
    /\ e.train_no = slice_to(NodeText(doc, i, piecewise), 5)
    /\ e.train_name = strip(slice_from(NodeText(doc, i, piecewise), 5))
    /\ NextDivs(doc, i) = {} => e.source_stn_name = <<>> /\ e.dstn_stn_name = <<>>
    /\ NextDivs(doc, i) # {} =>
          LET parts == Split(NodeText(doc, Nth(NextDivs(doc, i), 1), piecewise), ARROW)
          IN  /\ e.source_stn_name = strip(parts[1])
              /\ e.dstn_stn_name = IF Len(parts) > 1 THEN strip(parts[2]) ELSE <<>>
    /\ NextCells(doc, i) = {} => e.time_at = <<>> /\ e.detail = <<>>
    /\ NextCells(doc, i) # {} =>
          LET status == NodeText(doc, Nth(NextCells(doc, i), 1), piecewise)
          IN  /\ e.time_at = slice_to(status, 5)
              /\ e.detail = strip(slice_from(status, 5))

\* The envelope is a success with one entry per name element of doc, in
\* document order.
EntriesOf(doc, env, piecewise) ==
    /\ env.success
    /\ env.data.type = "list"
    /\ Len(env.data.v) = Cardinality(NameNodes(doc))
    /\ \A k \in 1..Len(env.data.v) :
          EntryOf(doc, Nth(NameNodes(doc), k), env.data.v[k], piecewise)

\* C12 as stated: the scraper succeeds with one entry per element of class
\* name, in document order (none gives the empty list); train_no is the first
\* 5 characters of the element's trimmed text and train_name the trimmed rest;
\* a missing next div, arrow part, enclosing cell or following cell gives
\* empty strings.
LiveStationScrapedTrimmedText ==
    Decoded("live") => EntriesOf(soup, result, FALSE)

\* C12 amended: the same, the text of an element being its pieces of text
\* trimmed one by one and joined with nothing between them.
LiveStationScraped ==
    Decoded("live") => EntriesOf(soup, result, TRUE)

\* C12 witness: a name element that holds another element was scraped, and
\* the two readings of its text differ.
LiveStationScrapedWitness ==
    /\ Decoded("live")
    /\ \E i \in NameNodes(soup) :
          /\ \E j \in 1..Len(soup) : i \in ancestors(soup, j)
          /\ NodeText(soup, i, TRUE) # NodeText(soup, i, FALSE)
    /\ Len(result.data.v) = Cardinality(NameNodes(soup))

\* The field is not empty and holds decimal digits only.
PurelyNumeric(field) ==
    field # <<>> /\ \A i \in 1..Len(field) : field[i] \in {"0", "1", "2", "3", "4", "5", "6", "7", "8", "9"}

\* Field 0 of the fields is spurious: field 1 exists and is longer than 6
\* characters, and field 0 is "^" or is longer than 6 characters and not
\* purely numeric.
SpuriousLead(fields) ==
    /\ Len(fields) >= 2
    /\ Len(fields[2]) > 6
    /\ fields[1] = <<"^">> \/ (Len(fields[1]) > 6 /\ ~PurelyNumeric(fields[1]))

\* C15: the repair of the train detail decoder removes field 0 of the first
\* segment exactly when field 1 exists and is longer than 6 characters and
\* field 0 is "^" or is longer than 6 characters and not purely numeric; it
\* removes nothing else and otherwise leaves the fields as they are, and the
\* decoder goes on with the repaired fields.
RepairRemovesSpuriousLead ==
    Decoded("train") =>
        LET fields == TildeFields(FirstSegment(raw))
            repaired == repaired_part1(FirstSegment(raw))
        IN  /\ SpuriousLead(fields) => repaired = Tail(fields)
            /\ ~SpuriousLead(fields) => repaired = fields
            /\ Len(fields) - Len(repaired) \in {0, 1}
            /\ result.success /\ SpuriousLead(fields) =>
                  result.data.v.train_name = fields[3]
            /\ result.success /\ ~SpuriousLead(fields) =>
                  result.data.v.train_name = fields[2]
            /\ /\ Len(Split(raw, SEP)) >= 2
               /\ FirstSegment(raw) \notin {ErrTryAgain, ErrTrainNotFound}
               /\ SpuriousLead(fields)
               /\ Len(fields) = 15
               => result.data = StrVal(MsgFirstPart)

\* C15 witness: a detail was decoded after its field 0 of more than 6 letters
\* was removed.
RepairRemovesSpuriousLeadWitness ==
    /\ Decoded("train")
    /\ result.success
    /\ LET fields == TildeFields(FirstSegment(raw))
       IN  /\ Len(fields) = 16
           /\ Len(fields[1]) > 6
           /\ fields[1] # <<"^">>
           /\ SpuriousLead(fields)
           /\ result.data.v.train_name = fields[3]

\* The train runs on the day of index i: its running_days has a bit i, and it is 1.
RunsOnDay(train, i) ==
    /\ i + 1 \in DOMAIN train.train_base.running_days
    /\ train.train_base.running_days[i + 1] = 1

\* The day index of the valid date of the three strings.
DayIndexOf(parts) ==
    (ZellerWeekday(int(parts[3]).val, int(parts[2]).val, int(parts[1]).val) + 5) % 7

\* C13: a trains-on-date request with from, to and a valid DD-MM-YYYY date
\* whose upstream payload (no upstream request failing) decodes successfully
\* is answered with success=true and the decoded list restricted, in its
\* order, to the trains whose running_days bit at the day index is 1; when the
\* day index is -1 the answer is the failure that the date could not be
\* processed, never a list.
TrainsOnDateFiltered ==
    /\ pc = "done"
    /\ endpoint = "train_on"
    /\ request.station_from # <<>>
    /\ request.station_to # <<>>
    /\ Len(Split(request.date_str, <<"-">>)) = 3
    /\ \A i \in 1..Len(received) : received[i].kind = "ok"
    /\ between_station_logic(raw, 0).ret.success
    => LET parts == Split(request.date_str, <<"-">>)
           decoded == between_station_logic(raw, 0).ret.data.v
       IN  /\ ValidDateStrings(parts) =>
                 /\ response.body.success
                 /\ DOMAIN response.body = {"success", "time_stamp", "data"}
                 /\ response.body.data =
                        ListVal(SelectSeq(decoded, LAMBDA train : RunsOnDay(train, DayIndexOf(parts))))
           /\ /\ ~get_day_on_date_logic(parts[1], parts[2], parts[3]).escaped
              /\ get_day_on_date_logic(parts[1], parts[2], parts[3]).ret = -1
              => /\ ~response.body.success
                 /\ DOMAIN response.body = {"success", "time_stamp", "data"}
                 /\ response.body.data = StrVal(MsgInvalidDate)

\* What holds of the trains-on-date view: every request with from, to and a
\* date of three parts is answered with the unexpected-error response, and no
\* request is sent upstream.
TrainsOnDateUnexpected ==
    /\ pc = "done"
    /\ endpoint = "train_on"
    /\ request.station_from # <<>>
    /\ request.station_to # <<>>
    /\ Len(Split(request.date_str, <<"-">>)) = 3
    => response = JsonResponse(ErrorBody(MsgUnexpected), 500) /\ sent = <<>>

\* The requests for a route that were sent.
RouteRequests == {i \in 1..Len(sent) : sent[i].url = "TRAINROUTE"}

\* The details decoded from the first answer, when there is one.
FirstAnswerDecodes ==
    /\ Len(received) >= 1
    /\ received[1].kind = "ok"
    /\ Len(Split(received[1].text, SEP)) >= 2
    /\ FirstSegment(received[1].text) \notin {ErrTryAgain, ErrTrainNotFound}
    /\ Len(repaired_part1(FirstSegment(received[1].text))) >= 15
    /\ Len(TildeFields(SecondSegment(received[1].text))) >= 20

\* C16: in the route lookup the route request is sent only after the answer
\* to the train lookup was received and decoded with success and a non-empty
\* train_id, and it carries that train_id; when the first decode fails no
\* route request is ever sent and the response is a failure; the response to
\* a chain of two answers is the envelope of the route decoder on the second.
RouteChainSequenced ==
    endpoint = "route_chain" =>
        /\ Cardinality(RouteRequests) <= 1
        /\ RouteRequests # {} =>
              /\ RouteRequests = {2}
              /\ sent[1].url = "getTrains" /\ sent[1].data = request.train_no
              /\ FirstAnswerDecodes
              /\ sent[2].data # <<>>
              /\ sent[2].data = TildeFields(SecondSegment(received[1].text))[13]
        /\ Len(received) >= 1 /\ ~FirstAnswerDecodes =>
              /\ RouteRequests = {}
              /\ pc = "done"
              /\ ~response.body.success
        /\ Len(received) <= Len(sent)
        /\ pc = "done" /\ Len(received) = 2 /\ received[2].kind = "ok" =>
              \E t \in 0..MaxTime :
                  response = JsonResponse(get_route_logic(received[2].text, t).ret, 200)

\* C16 witness: both requests were answered and the decoded route returned.
RouteChainSequencedWitness ==
    /\ endpoint = "route_chain"
    /\ pc = "done"
    /\ Len(sent) = 2
    /\ Len(received) = 2
    /\ received[2].kind = "ok"
    /\ response.body.success
    /\ Len(response.body.data.v) = 2

\* The segments of its input that task k has gone through.
Processed(k) ==
    LET all == task_segments(tasks[k].fn, tasks[k].input)
    IN  SubSeq(all, 1, Len(all) - Len(tasks[k].segments))

\* arr after the loop of decoder fn has gone through the segments, one after another.
ArrAfter(fn, segments) ==
    IF fn = "route" THEN collect_stops(segments, <<>>).arr
    ELSE collect_trains(segments, <<>>).arr

\* C14: the decoders are pure under concurrency: whatever ran before an
\* invocation or is interleaved with it, it returns the success and data that
\* the decoder gives for its input alone (only time_stamp may differ), so any
\* two invocations on the same input agree; and the list an invocation builds
\* depends on its own input and progress only.
TasksPure ==
    endpoint = "tasks" =>
        /\ \A k \in Tasks : tasks[k].at = "returned" =>
              /\ tasks[k].ret.success = decode(tasks[k].fn, tasks[k].input, 0).ret.success
              /\ tasks[k].ret.data = decode(tasks[k].fn, tasks[k].input, 0).ret.data
        /\ \A j, k \in Tasks :
              /\ tasks[j].at = "returned" /\ tasks[k].at = "returned"
              /\ tasks[j].fn = tasks[k].fn /\ tasks[j].input = tasks[k].input
              => /\ tasks[j].ret.success = tasks[k].ret.success
                 /\ tasks[j].ret.data = tasks[k].ret.data
        /\ \A k \in Tasks : tasks[k].at = "loop" =>
              frames[k] = ArrAfter(tasks[k].fn, Processed(k))

\* C14 witness: one task has returned a list of two while another, decoding
\* the same payload, is between two iterations of its loop.
TasksPureWitness ==
    /\ endpoint = "tasks"
    /\ tasks[1].at = "returned"
    /\ tasks[1].ret.success
    /\ Len(tasks[1].ret.data.v) = 2
    /\ tasks[2].at = "loop"
    /\ tasks[2].fn = tasks[1].fn /\ tasks[2].input = tasks[1].input
    /\ Len(tasks[2].segments) = 1
    /\ frames[2] # <<>>
=============================================================================
